---- MODULE Spec2Model ----
(***************************************************************************)
(* Container lifecycle, network wiring and interactive attach of the       *)
(* src-d engine command line tool (package docker, docker.go), run against *)
(* a container engine whose requests are the steps of the model.           *)
(*                                                                         *)
(* Every request the client code sends to the engine is one action.  A     *)
(* request either succeeds, fails because of the engine's state (a name    *)
(* conflict, a missing container or network) or fails for a reason of the  *)
(* transport or the daemon (a "fault").                                    *)
(***************************************************************************)
EXTENDS Integers, Sequences, FiniteSets, TLC

\* Bounds of the model.
MaxIds == 3          \* container ids the engine can hand out
MaxCalls == 2        \* invocations begun, over all processes
MaxNets == 2         \* networks named NetworkName the engine may hold
MaxSignals == 1      \* interrupts delivered to the process
MaxOut == 1          \* chunks of output the remote writes
MaxAttempts == 3     \* calls of pingDB the poller makes
MaxComp == 1         \* largest major, minor or patch number of a version
MaxTags == 2         \* different tags in the registry's list
MaxResizes == 3      \* resize requests of the ongoing size monitor

\* Client processes (independent invocations of the tool).
Procs == {1, 2}
\* Container names the callers use: components.Gitbase.Name and
\* components.MysqlCli.Name.
Names == {"Gitbase.Name", "MysqlCli.Name"}
\* Engine-assigned container ids; 0 stands for "no id".
Ids == 1..MaxIds
\* Exit statuses a container's process may report.
ExitCodes == {0, 137}
\* exit := make(chan int64, 1)
ExitChanCap == 1
\* case <-errCh: code = 1
SentinelCode == 1

VARIABLES
    containers,  \* engine: id -> [name, state, code]
    nextId,      \* engine: next id to assign
    networks,    \* engine: number of networks named NetworkName
    connected,   \* engine: ids connected to the network
    proc,        \* client: per process, the locals of the running call
    watch,       \* Attach's exit watcher goroutine, per container id
    exit,        \* Attach's exit channel, per container id
    sql,         \* sqlCmd.Execute: its position, signal handler and teardowns
    stdio,       \* attachStdio: the terminal, the two copy loops, the stream
    probe,       \* ensureConnReady: the poller, its pingDB attempt, the caller
    tags,        \* GetCompatibleTag: the current version, the tag list, the result
    inst,        \* EnsureInstalled: the local images, the request, the result
    tty          \* monitorTtySize: the initial sizing, its retries, the monitor

vars == <<containers, nextId, networks, connected, proc, watch, exit,
          sql, stdio, probe, tags, inst, tty>>

engineVars == <<containers, nextId, networks, connected>>
watchVars == <<watch, exit>>
\* The state of package cmd and of the version resolver, which package
\* docker's container calls leave alone.
libVars == <<inst, tty>>
cmdVars == <<sql, stdio, probe, tags, inst, tty>>

----------------------------------------------------------------------------
(* Engine *)

\* States in which a container exists and holds its name.
Live == {"created", "running", "exited"}

NoContainer == [name |-> "", state |-> "none", code |-> 0]

\* Errors are values naming the request that failed: the rpc, its position
\* in the call's request log and whether the engine's state caused it.
NoErr == [rpc |-> "none", n |-> 0, kind |-> "none"]

\* ContainerList with a name filter followed by the exact comparison
\* name == n[1:]: the ids of the existing containers named n.
Named(cs, n) == {i \in Ids : cs[i].name = n /\ cs[i].state \in Live}

\* Info: the first exact match of the listing, 0 when there is none
\* (ErrNotFound).
Info(cs, n) == IF Named(cs, n) = {} THEN 0
               ELSE CHOOSE i \in Named(cs, n) : \A j \in Named(cs, n) : i <= j

\* (mutant) the engine accepts a create whatever the name.
NameConflictNever(cs, n) == FALSE

\* The engine refuses a create whose name an existing container holds.
NameConflict(cs, n) == Named(cs, n) # {}

\* The engine's state after a successful ContainerCreate of name n as id i.
EngineCreate(cs, n, i) == [cs EXCEPT ![i] = [name |-> n, state |-> "created", code |-> 0]]

\* The engine's state after a forced ContainerRemove of id i: a running
\* container is killed first, and its waiters are told the kill status.
EngineRemove(cs, i) ==
    [cs EXCEPT ![i].state = "removed",
               ![i].code = IF cs[i].state = "running" THEN 137 ELSE @]

\* The engine's state after ContainerStart of id i.
EngineStart(cs, i) == [cs EXCEPT ![i].state = "running"]

----------------------------------------------------------------------------
(* Client locals *)

IdleProc == [pc |-> "idle", op |-> "none", name |-> "", log |-> <<>>,
             resID |-> 0, infoID |-> 0, createErr |-> NoErr, err |-> NoErr,
             recID |-> 0, recState |-> "none", running |-> "unknown",
             faulted |-> FALSE, calls |-> 0, prevID |-> 0,
             preC |-> [i \in Ids |-> NoContainer], preNet |-> 0]

\* One entry of the request log of a call.
Req(rpc, id, ok) == [rpc |-> rpc, id |-> id, ok |-> ok]

\* The error of the request about to be logged by p.
ErrOf(p, rpc, kind) == [rpc |-> rpc, n |-> Len(proc[p].log) + 1, kind |-> kind]

\* Calls begun so far, over all processes.
Begun == proc[1].calls + proc[2].calls

\* p is between calls: it has made none yet, or its last call has returned.
Ready(p) == proc[p].pc \in {"idle", "done"}

\* The call of p starts: fresh locals.  snapC and snapN are the engine's
\* containers and networks, and prev the record the last call returned (0:
\* none, or an error), as the caller's observer remembers them.
Fresh(p, o, n, first, snapC, snapN, prev) ==
    [IdleProc EXCEPT !.pc = first, !.op = o, !.name = n,
                     !.calls = proc[p].calls + 1,
                     !.prevID = prev,
                     !.preC = snapC, !.preNet = snapN]

----------------------------------------------------------------------------
(* The decisions of the client code *)

\* (mutant) a container that exists counts as running, whatever its State.
IsRunningAnyState(cs, n) == Info(cs, n) # 0

\* (mutant) no container ever counts as running.
IsRunningNever(cs, n) == FALSE

\* IsRunning(name, ""): the container is found and its State is "running".
IsRunning(cs, n) == Info(cs, n) # 0 /\ cs[Info(cs, n)].state = "running"

\* (mutant) start(ctx) is invoked whatever IsRunning said.
AfterIsRunningStartAnyway(running) == "fcc_create1"

\* InfoOrStart: start(ctx) is invoked only if !running.
AfterIsRunning(running) == IF running THEN "info" ELSE "fcc_create1"

\* (mutant) Attach starts the container right after creating it.
AfterCreateStartsFirst(o) == "start"

\* forceContainerCreate returned res, nil: Start goes on to ContainerStart,
\* Attach to connectToNetwork.
AfterCreate(o) == IF o = "Attach" THEN "net_inspect" ELSE "start"

\* (mutant) Attach goes from the network straight to the start request.
AfterConnectSkipsAttach(o) == IF o = "Attach" THEN "start"
                              ELSE IF o = "InfoOrStart" THEN "info" ELSE "done"

\* (mutant) the lookup's own error is returned.
FccLookupErrOfInfo(createErr, errInfo) == errInfo

\* (mutant) the create is retried whether or not the removal succeeded.
AfterRemoveRetryAnyway(ok) == "fcc_create2"

\* forceContainerCreate, errInfo != nil: "return res, err" returns the error
\* of the first create, not errInfo.
FccLookupErr(createErr, errInfo) == createErr

\* forceContainerCreate after ContainerRemove: err != nil returns, else the
\* second ContainerCreate.
AfterRemove(ok) == IF ok THEN "fcc_create2" ELSE "done"

\* ContainerStart succeeded: Start sleeps and goes on to connectToNetwork,
\* Attach makes the exit channel, spawns the watcher and returns.
AfterStart(o) == IF o = "Attach" THEN "done" ELSE "net_inspect"

\* connectToNetwork: NetworkCreate is called iff NetworkInspect gave an error.
AfterInspect(ok) == IF ok THEN "net_connect" ELSE "net_create"

\* connectToNetwork returned nil: Attach goes on to ContainerAttach,
\* InfoOrStart to Info(name), Start returns.
AfterConnect(o) == IF o = "Attach" THEN "attach"
                   ELSE IF o = "InfoOrStart" THEN "info" ELSE "done"

----------------------------------------------------------------------------
(* Client steps *)

\* p logs request r, and goes to pc with the fields of f changed.
Logged(p, r, f) == [f EXCEPT !.log = Append(proc[p].log, r)]

\* The component containers are brought up by InfoOrStart and Start, the
\* mysql client container by Attach (runMysqlCli).
BeginInfoOrStart(p) ==
    /\ Ready(p) /\ Begun < MaxCalls
    /\ proc' = [proc EXCEPT ![p] = Fresh(p, "InfoOrStart", "Gitbase.Name", "is_running",
                                         IdleProc.preC, IdleProc.preNet, 0)]
    /\ UNCHANGED <<engineVars, watchVars, cmdVars>>

BeginStart(p) ==
    /\ Ready(p) /\ Begun < MaxCalls
    /\ proc' = [proc EXCEPT ![p] = Fresh(p, "Start", "Gitbase.Name", "fcc_create1",
                                         IdleProc.preC, IdleProc.preNet, 0)]
    /\ UNCHANGED <<engineVars, watchVars, cmdVars>>

BeginAttach(p) ==
    /\ Ready(p) /\ Begun < MaxCalls
    /\ proc' = [proc EXCEPT ![p] = Fresh(p, "Attach", "MysqlCli.Name", "fcc_create1",
                                         IdleProc.preC, IdleProc.preNet, 0)]
    /\ UNCHANGED <<engineVars, watchVars, cmdVars>>

\* InfoOrStart called with no other actor around: the observer remembers the
\* engine's state at the call and the record the call before returned for
\* the same name.
SoloInfoOrStart(p) ==
    /\ Ready(p) /\ Begun < MaxCalls
    /\ \E n \in Names :
         proc' = [proc EXCEPT ![p] = Fresh(p, "InfoOrStart", n, "is_running",
                       containers, networks,
                       IF proc[p].err = NoErr /\ proc[p].name = n
                       THEN proc[p].recID ELSE 0)]
    /\ UNCHANGED <<engineVars, watchVars, cmdVars>>

\* InfoOrStart: running, err := IsRunning(name, "")
CallIsRunning(p) ==
    LET q == proc[p] IN
    /\ q.pc = "is_running"
    /\ \/ proc' = [proc EXCEPT ![p] = Logged(p, Req("list", 0, TRUE),
                     [q EXCEPT !.running = IF IsRunning(containers, q.name) THEN "yes" ELSE "no",
                               !.pc = AfterIsRunning(IsRunning(containers, q.name))])]
       \/ proc' = [proc EXCEPT ![p] = Logged(p, Req("list", 0, FALSE),
                     [q EXCEPT !.err = ErrOf(p, "list", "fault"), !.faulted = TRUE,
                               !.pc = "done"])]
    /\ UNCHANGED <<engineVars, watchVars, cmdVars>>

\* The outcome of a ContainerCreate request of p: created, refused for the
\* name, or failed.  next is where a success leads, fail where a failure does.
Create(p, next, fail) ==
    LET q == proc[p] IN
    \/ /\ ~NameConflict(containers, q.name) /\ nextId <= MaxIds
       /\ containers' = EngineCreate(containers, q.name, nextId)
       /\ nextId' = nextId + 1
       /\ proc' = [proc EXCEPT ![p] = Logged(p, Req("create", nextId, TRUE),
                     [q EXCEPT !.resID = nextId, !.pc = next])]
    \/ /\ NameConflict(containers, q.name)
       /\ proc' = [proc EXCEPT ![p] = Logged(p, Req("create", 0, FALSE),
                     [q EXCEPT !.createErr = ErrOf(p, "create", "conflict"),
                               !.err = IF fail = "done" THEN ErrOf(p, "create", "conflict") ELSE @,
                               !.pc = fail])]
       /\ UNCHANGED <<containers, nextId>>
    \/ /\ ~NameConflict(containers, q.name)
       /\ proc' = [proc EXCEPT ![p] = Logged(p, Req("create", 0, FALSE),
                     [q EXCEPT !.createErr = ErrOf(p, "create", "fault"),
                               !.err = IF fail = "done" THEN ErrOf(p, "create", "fault") ELSE @,
                               !.faulted = TRUE, !.pc = fail])]
       /\ UNCHANGED <<containers, nextId>>

\* forceContainerCreate: res, err := c.ContainerCreate(...); err == nil returns.
FccCreate1(p) ==
    /\ proc[p].pc = "fcc_create1"
    /\ Create(p, AfterCreate(proc[p].op), "fcc_info")
    /\ UNCHANGED <<networks, connected, watchVars, cmdVars>>

\* forceContainerCreate: info, errInfo := Info(name); errInfo != nil returns
\* the error of the first create.
FccInfo(p) ==
    LET q == proc[p]
        i == Info(containers, q.name) IN
    /\ q.pc = "fcc_info"
    /\ \/ /\ i # 0
          /\ proc' = [proc EXCEPT ![p] = Logged(p, Req("list", 0, TRUE),
                        [q EXCEPT !.infoID = i, !.pc = "fcc_remove"])]
       \/ /\ i = 0
          /\ proc' = [proc EXCEPT ![p] = Logged(p, Req("list", 0, TRUE),
                        [q EXCEPT !.err = FccLookupErr(q.createErr, ErrOf(p, "list", "notfound")),
                                  !.pc = "done"])]
       \/ proc' = [proc EXCEPT ![p] = Logged(p, Req("list", 0, FALSE),
                     [q EXCEPT !.err = FccLookupErr(q.createErr, ErrOf(p, "list", "fault")),
                               !.faulted = TRUE, !.pc = "done"])]
    /\ UNCHANGED <<engineVars, watchVars, cmdVars>>

\* forceContainerCreate: err = c.ContainerRemove(ctx, info.ID, Force)
FccRemove(p) ==
    LET q == proc[p] IN
    /\ q.pc = "fcc_remove"
    /\ \/ /\ containers[q.infoID].state \in Live
          /\ containers' = EngineRemove(containers, q.infoID)
          /\ connected' = connected \ {q.infoID}
          /\ proc' = [proc EXCEPT ![p] = Logged(p, Req("remove", q.infoID, TRUE),
                        [q EXCEPT !.pc = AfterRemove(TRUE)])]
       \/ /\ containers[q.infoID].state \notin Live
          /\ proc' = [proc EXCEPT ![p] = Logged(p, Req("remove", q.infoID, FALSE),
                        [q EXCEPT !.err = ErrOf(p, "remove", "notfound"),
                                  !.pc = AfterRemove(FALSE)])]
          /\ UNCHANGED <<containers, connected>>
       \/ /\ containers[q.infoID].state \in Live
          /\ proc' = [proc EXCEPT ![p] = Logged(p, Req("remove", q.infoID, FALSE),
                        [q EXCEPT !.err = ErrOf(p, "remove", "fault"), !.faulted = TRUE,
                                  !.pc = AfterRemove(FALSE)])]
          /\ UNCHANGED <<containers, connected>>
    /\ UNCHANGED <<nextId, networks, watchVars, cmdVars>>

\* forceContainerCreate: res, err = c.ContainerCreate(...) again; its result
\* is returned either way.
FccCreate2(p) ==
    /\ proc[p].pc = "fcc_create2"
    /\ Create(p, AfterCreate(proc[p].op), "done")
    /\ UNCHANGED <<networks, connected, watchVars, cmdVars>>

\* Start, Attach: c.ContainerStart(ctx, res.ID, ...).  In Attach a success is
\* followed by exit := make(chan int64, 1), the watcher goroutine and the
\* return of the channel.
CallContainerStart(p) ==
    LET q == proc[p] IN
    /\ q.pc = "start"
    /\ \/ /\ containers[q.resID].state \in Live
          /\ containers' = EngineStart(containers, q.resID)
          /\ proc' = [proc EXCEPT ![p] = Logged(p, Req("start", q.resID, TRUE),
                        [q EXCEPT !.pc = AfterStart(q.op)])]
          /\ watch' = IF q.op = "Attach"
                      THEN [watch EXCEPT ![q.resID] = [pc |-> "wait", via |-> "none", code |-> 0, sent |-> 0]]
                      ELSE watch
       \/ /\ containers[q.resID].state \notin Live
          /\ proc' = [proc EXCEPT ![p] = Logged(p, Req("start", q.resID, FALSE),
                        [q EXCEPT !.err = ErrOf(p, "start", "notfound"), !.pc = "done"])]
          /\ UNCHANGED <<containers, watch>>
       \/ /\ containers[q.resID].state \in Live
          /\ proc' = [proc EXCEPT ![p] = Logged(p, Req("start", q.resID, FALSE),
                        [q EXCEPT !.err = ErrOf(p, "start", "fault"), !.faulted = TRUE,
                                  !.pc = "done"])]
          /\ UNCHANGED <<containers, watch>>
    /\ UNCHANGED <<nextId, networks, connected, exit, cmdVars>>

\* connectToNetwork: c.NetworkInspect(ctx, NetworkName, ...)
NetInspect(p) ==
    LET q == proc[p] IN
    /\ q.pc = "net_inspect"
    /\ \/ /\ networks >= 1
          /\ proc' = [proc EXCEPT ![p] = Logged(p, Req("net_inspect", 0, TRUE),
                        [q EXCEPT !.pc = AfterInspect(TRUE)])]
       \/ /\ networks = 0
          /\ proc' = [proc EXCEPT ![p] = Logged(p, Req("net_inspect", 0, FALSE),
                        [q EXCEPT !.pc = AfterInspect(FALSE)])]
       \/ /\ networks >= 1
          /\ proc' = [proc EXCEPT ![p] = Logged(p, Req("net_inspect", 0, FALSE),
                        [q EXCEPT !.faulted = TRUE, !.pc = AfterInspect(FALSE)])]
    /\ UNCHANGED <<engineVars, watchVars, cmdVars>>

\* connectToNetwork: c.NetworkCreate(ctx, NetworkName, types.NetworkCreate{});
\* an error is returned as "could not create network".  CheckDuplicate is not
\* set: an engine that finds the name taken either refuses the request or
\* makes a second network of that name.
NetCreate(p) ==
    LET q == proc[p] IN
    /\ q.pc = "net_create"
    /\ \/ /\ networks = 0
          /\ networks' = 1
          /\ proc' = [proc EXCEPT ![p] = Logged(p, Req("net_create", 0, TRUE),
                        [q EXCEPT !.pc = "net_connect"])]
       \/ /\ networks >= 1
          /\ proc' = [proc EXCEPT ![p] = Logged(p, Req("net_create", 0, FALSE),
                        [q EXCEPT !.err = ErrOf(p, "net_create", "conflict"), !.pc = "done"])]
          /\ UNCHANGED networks
       \/ /\ networks >= 1 /\ networks < MaxNets
          /\ networks' = networks + 1
          /\ proc' = [proc EXCEPT ![p] = Logged(p, Req("net_create", 0, TRUE),
                        [q EXCEPT !.pc = "net_connect"])]
       \/ /\ networks = 0
          /\ proc' = [proc EXCEPT ![p] = Logged(p, Req("net_create", 0, FALSE),
                        [q EXCEPT !.err = ErrOf(p, "net_create", "fault"), !.faulted = TRUE,
                                  !.pc = "done"])]
          /\ UNCHANGED networks
    /\ UNCHANGED <<containers, nextId, connected, watchVars, cmdVars>>

\* connectToNetwork: return c.NetworkConnect(ctx, NetworkName, containerID, nil)
NetConnect(p) ==
    LET q == proc[p]
        can == networks >= 1 /\ containers[q.resID].state \in Live IN
    /\ q.pc = "net_connect"
    /\ \/ /\ can
          /\ connected' = connected \cup {q.resID}
          /\ proc' = [proc EXCEPT ![p] = Logged(p, Req("net_connect", q.resID, TRUE),
                        [q EXCEPT !.pc = AfterConnect(q.op)])]
       \/ /\ ~can
          /\ proc' = [proc EXCEPT ![p] = Logged(p, Req("net_connect", q.resID, FALSE),
                        [q EXCEPT !.err = ErrOf(p, "net_connect", "notfound"), !.pc = "done"])]
          /\ UNCHANGED connected
       \/ /\ can
          /\ proc' = [proc EXCEPT ![p] = Logged(p, Req("net_connect", q.resID, FALSE),
                        [q EXCEPT !.err = ErrOf(p, "net_connect", "fault"), !.faulted = TRUE,
                                  !.pc = "done"])]
          /\ UNCHANGED connected
    /\ UNCHANGED <<containers, nextId, networks, watchVars, cmdVars>>

\* Attach: resp, err := c.ContainerAttach(ctx, res.ID, ...)
CallContainerAttach(p) ==
    LET q == proc[p] IN
    /\ q.pc = "attach"
    /\ \/ /\ containers[q.resID].state \in Live
          /\ proc' = [proc EXCEPT ![p] = Logged(p, Req("attach", q.resID, TRUE),
                        [q EXCEPT !.pc = "start"])]
       \/ /\ containers[q.resID].state \notin Live
          /\ proc' = [proc EXCEPT ![p] = Logged(p, Req("attach", q.resID, FALSE),
                        [q EXCEPT !.err = ErrOf(p, "attach", "notfound"), !.pc = "done"])]
       \/ /\ containers[q.resID].state \in Live
          /\ proc' = [proc EXCEPT ![p] = Logged(p, Req("attach", q.resID, FALSE),
                        [q EXCEPT !.err = ErrOf(p, "attach", "fault"), !.faulted = TRUE,
                                  !.pc = "done"])]
    /\ UNCHANGED <<engineVars, watchVars, cmdVars>>

\* InfoOrStart: return Info(name)
CallInfo(p) ==
    LET q == proc[p]
        i == Info(containers, q.name) IN
    /\ q.pc = "info"
    /\ \/ /\ i # 0
          /\ proc' = [proc EXCEPT ![p] = Logged(p, Req("list", 0, TRUE),
                        [q EXCEPT !.recID = i, !.recState = containers[i].state,
                                  !.pc = "done"])]
       \/ /\ i = 0
          /\ proc' = [proc EXCEPT ![p] = Logged(p, Req("list", 0, TRUE),
                        [q EXCEPT !.err = ErrOf(p, "list", "notfound"), !.pc = "done"])]
       \/ proc' = [proc EXCEPT ![p] = Logged(p, Req("list", 0, FALSE),
                     [q EXCEPT !.err = ErrOf(p, "list", "fault"), !.faulted = TRUE,
                               !.pc = "done"])]
    /\ UNCHANGED <<engineVars, watchVars, cmdVars>>

----------------------------------------------------------------------------
(* The container's process and Attach's exit watcher *)

\* The process of a running container ends with a status.
ContainerExit(i) ==
    /\ containers[i].state = "running"
    /\ \E c \in ExitCodes :
         containers' = [containers EXCEPT ![i].state = "exited", ![i].code = c]
    /\ UNCHANGED <<nextId, networks, connected, proc, watchVars, cmdVars>>

\* Watcher: case body := <-waitBody: code = body.StatusCode
WaitBody(i) ==
    /\ watch[i].pc = "wait"
    /\ containers[i].state \in {"exited", "removed"}
    /\ watch' = [watch EXCEPT ![i].pc = "send", ![i].via = "body",
                             ![i].code = containers[i].code]
    /\ UNCHANGED <<engineVars, proc, exit, cmdVars>>

\* Watcher: case <-errCh: code = 1
WaitErr(i) ==
    /\ watch[i].pc = "wait"
    /\ watch' = [watch EXCEPT ![i].pc = "send", ![i].via = "err",
                             ![i].code = SentinelCode]
    /\ UNCHANGED <<engineVars, proc, exit, cmdVars>>

\* (mutant) the watcher goes round to send again.
AfterExitSendAgain == "send"

\* Watcher: exit <- code is the goroutine's last statement.
AfterExitSend == "end"

\* Watcher: exit <- code, possible when the channel has room.
ExitSend(i) ==
    /\ watch[i].pc = "send"
    /\ Len(exit[i]) < ExitChanCap
    /\ exit' = [exit EXCEPT ![i] = Append(@, watch[i].code)]
    /\ watch' = [watch EXCEPT ![i].pc = AfterExitSend, ![i].sent = @ + 1]
    /\ UNCHANGED <<engineVars, proc, cmdVars>>

\* sqlCmd.Execute with a query: cd := int(<-exit).  The interactive path never
\* reads the channel.
ExitRecv(i) ==
    /\ exit[i] # <<>>
    /\ exit' = [exit EXCEPT ![i] = Tail(@)]
    /\ UNCHANGED <<engineVars, proc, watch, cmdVars>>

----------------------------------------------------------------------------
(* Package cmd and the version resolver, not in a call *)

\* sqlCmd.Execute.  pc: where the main goroutine is; query: whether a query
\* was given; handler: signal.Notify done; ch: signals buffered in ch; hpc: the
\* handler goroutine; stop: the invocations of stopMysqlClient, the deferred
\* one ("main") and the handler's; cd: the status received from exit (-1:
\* none); result: what Execute returns; sigs: interrupts delivered so far;
\* late: an interrupt came after runMysqlCli's container was created.
NoStop == [pc |-> "none", id |-> 0, faulted |-> FALSE, err |-> FALSE]
SqlIdle == [pc |-> "idle", query |-> FALSE, handler |-> FALSE, ch |-> 0,
            hpc |-> "none", stop |-> [w \in {"main", "handler"} |-> NoStop],
            cd |-> -1, result |-> "none", sigs |-> 0, late |-> FALSE]

\* attachStdio.  pc: the calling goroutine; term: the terminal's mode; inp,
\* out: the two copy goroutines; first: the copy loop that ended first;
\* closeWrites: calls of resp.CloseWrite; produced, copied: chunks the remote
\* wrote and chunks copied to local output; got: the receive that led to the
\* return ("out", "in", or "drain": line 258); copyRet: the value of the return statement; ret: the value
\* the caller gets.
StdioIdle == [pc |-> "idle", isTerminal |-> FALSE, term |-> "cooked", restores |-> 0,
              inp |-> "none", inErr |-> FALSE, out |-> "none", outErr |-> FALSE,
              first |-> "none", closeWrites |-> 0, produced |-> 0, copied |-> 0,
              got |-> "none", copyRet |-> "none", ret |-> "none"]
\* ensureConnReady.  main: the caller's goroutine; result: what it returned;
\* poll: the polling goroutine; attempts: calls of pingDB begun; sleeps: pauses
\* taken; ping[k]: how attempt k of pingDB returned; work[k]: the worker
\* goroutine of attempt k; crashed: a goroutine panicked, the process is gone.
Attempts == 1..MaxAttempts
ProbeIdle == [main |-> "idle", result |-> "none", poll |-> "none",
              attempts |-> 0, sleeps |-> 0,
              ping |-> [k \in Attempts |-> "none"],
              work |-> [k \in Attempts |-> "none"],
              crashed |-> FALSE]
\* A semver.Version: major, minor and patch numbers, and whether it carries
\* a pre-release component (one identifier, "rc", where it does).
Version(major, minor, patch, pre) ==
    [major |-> major, minor |-> minor, patch |-> patch, pre |-> pre]

\* semver.Version{}, the zero value.
ZeroV == Version(0, 0, 0, FALSE)

\* The text of a tag or of a version: a word that is no number ("latest",
\* "dev"), or an optional "v", two or three numbers between dots and an
\* optional "-rc".  The empty text has no word and no number.
Text(word, pfx, nums, pre) ==
    [word |-> word, pfx |-> pfx, nums |-> nums, pre |-> pre]

Empty == Text("", FALSE, <<>>, FALSE)
Word(w) == Text(w, FALSE, <<>>, FALSE)

\* GetCompatibleTag.  cur: currentVersion; cliV: its parse; seen: the tags of
\* the list the loop has been through; newestV, hasNewBreakingTag: the
\* loop's variables; tag, err: what GetCompatibleTag returned.
TagsIdle == [pc |-> "idle", cur |-> Empty, cliV |-> ZeroV, seen |-> {},
             newestV |-> ZeroV, hasNewBreakingTag |-> FALSE,
             tag |-> Empty, err |-> "none"]

\* EnsureInstalled.  local: the repo tags of the engine's images; image,
\* version: the arguments; ok: IsInstalled's answer; id: what was pulled;
\* ret: the result.
InstIdle == [pc |-> "idle", local |-> {}, version |-> "", ok |-> FALSE,
             pulled |-> FALSE, id |-> [name |-> "", tag |-> ""], ret |-> "none"]

\* monitorTtySize.  reqs: resize requests of the initial sizing; okAt: the
\* request that succeeded; retry: the goroutine of the retries and tries, its
\* counter; monitor: the ongoing monitor; resizes: its resize requests;
\* early: it issued one while the retries were running.
TtyIdle == [pc |-> "idle", reqs |-> 0, okAt |-> 0, retry |-> "none",
            tries |-> 0, monitor |-> "none", resizes |-> 0, early |-> FALSE]

----------------------------------------------------------------------------
(* sqlCmd.Execute: the mysql client session, from runMysqlCli on *)

\* The invokers of stopMysqlClient: the deferred call of Execute's goroutine
\* and the signal handler goroutine.
Stoppers == {"main", "handler"}

\* The process running Execute (the caller of docker.Attach).
SqlProc == 1

\* ch := make(chan os.Signal, 1)
SigChanCap == 1

\* The container runMysqlCli's Attach has created (0: none yet).
Cid == proc[SqlProc].resID

\* The process has neither returned from Execute nor been killed.
Alive == sql.pc \notin {"idle", "exited", "killed"}

\* A chunk of remote output is eventually at the end of the stream: the
\* container's process has ended (exited, or killed by a removal).
RemoteClosed == Cid # 0 /\ containers[Cid].state \in {"exited", "removed"}

\* Execute, line 89: resp, exit, err := runMysqlCli(ctx, query), which calls
\* docker.Attach for components.MysqlCli.Name.
ExecRunMysqlCli(q) ==
    /\ sql.pc = "idle" /\ Ready(SqlProc) /\ Begun < MaxCalls
    /\ sql' = [sql EXCEPT !.pc = "run", !.query = q]
    /\ proc' = [proc EXCEPT ![SqlProc] =
                   Fresh(SqlProc, "Attach", "MysqlCli.Name", "fcc_create1",
                         IdleProc.preC, IdleProc.preNet, 0)]
    /\ UNCHANGED <<engineVars, watchVars, stdio, probe, tags, libVars>>

\* Execute, lines 90-92: an error of runMysqlCli is returned at once; no
\* teardown is deferred yet and no signal handler installed.
ExecAttachReturned ==
    /\ sql.pc = "run" /\ proc[SqlProc].pc = "done"
    /\ sql' = IF proc[SqlProc].err # NoErr
              THEN [sql EXCEPT !.pc = "exited", !.result = "err"]
              ELSE [sql EXCEPT !.pc = "install"]
    /\ UNCHANGED <<engineVars, proc, watchVars, stdio, probe, tags, libVars>>

\* Execute, lines 93-102 and 104/117: the teardown is deferred, the signals
\* are routed to ch and the handler goroutine is spawned; then the query's
\* output is copied, or attachStdio is entered, its stdin a terminal or not.
ExecInstall ==
    /\ sql.pc = "install"
    /\ sql' = [sql EXCEPT !.handler = TRUE, !.hpc = "wait",
                          !.pc = IF sql.query THEN "copy" ELSE "stdio"]
    /\ \/ /\ sql.query
          /\ UNCHANGED stdio
       \/ /\ ~sql.query
          /\ \E t \in BOOLEAN : stdio' = [StdioIdle EXCEPT !.pc = "entry", !.isTerminal = t]
    /\ UNCHANGED <<engineVars, proc, watchVars, probe, tags, libVars>>

\* An interrupt is delivered to the process.  With the handler installed the
\* signal is put in ch if there is room and dropped otherwise; before that the
\* runtime's default applies and the process is terminated.
Interrupt ==
    /\ Alive /\ sql.sigs < MaxSignals
    /\ sql' = [sql EXCEPT !.sigs = @ + 1,
                          !.late = @ \/ Cid # 0,
                          !.ch = IF sql.handler /\ @ < SigChanCap THEN @ + 1 ELSE @,
                          !.pc = IF sql.handler THEN @ ELSE "killed"]
    /\ proc' = IF sql.handler THEN proc
               ELSE [proc EXCEPT ![SqlProc].pc = "killed"]
    /\ UNCHANGED <<engineVars, watchVars, stdio, probe, tags, libVars>>

\* Handler goroutine, lines 100-101: <-ch, then stopMysqlClient().
HandlerRecv ==
    /\ Alive /\ sql.hpc = "wait" /\ sql.ch > 0
    /\ sql' = [sql EXCEPT !.ch = @ - 1, !.hpc = "stop",
                          !.stop["handler"] = [NoStop EXCEPT !.pc = "info"]]
    /\ UNCHANGED <<engineVars, proc, watchVars, stdio, probe, tags, libVars>>

\* (mutant) RemoveContainer returns after the lookup, whatever it found.
AfterStopInfoSkipsRemove(found) == "done"

\* RemoveContainer: an error of Info(name) is returned, else ContainerRemove
\* is called for info.ID.
AfterStopInfo(found) == IF found THEN "remove" ELSE "done"

\* sql after invocation w of stopMysqlClient has moved to st.  The invocation
\* returns nothing: its error is logged.  After the deferred one Execute
\* returns (resp.Close() runs) and the process ends; after the handler's one
\* the handler goroutine ends.
Stopped(w, st) ==
    [sql EXCEPT !.stop[w] = st,
                !.pc = IF w = "main" /\ st.pc = "done" THEN "exited" ELSE @,
                !.hpc = IF w = "handler" /\ st.pc = "done" THEN "end" ELSE @]

\* stopMysqlClient -> RemoveContainer: info, err := Info(name)
StopInfo(w) ==
    LET st == sql.stop[w]
        i == Info(containers, "MysqlCli.Name") IN
    /\ Alive /\ st.pc = "info"
    /\ \/ /\ i # 0
          /\ sql' = Stopped(w, [st EXCEPT !.id = i, !.pc = AfterStopInfo(TRUE)])
       \/ /\ i = 0
          /\ sql' = Stopped(w, [st EXCEPT !.err = TRUE, !.pc = AfterStopInfo(FALSE)])
       \/ sql' = Stopped(w, [st EXCEPT !.err = TRUE, !.faulted = TRUE,
                                       !.pc = AfterStopInfo(FALSE)])
    /\ UNCHANGED <<engineVars, proc, watchVars, stdio, probe, tags, libVars>>

\* stopMysqlClient -> RemoveContainer: c.ContainerRemove(ctx, info.ID,
\* Force, RemoveVolumes)
StopRemove(w) ==
    LET st == sql.stop[w] IN
    /\ Alive /\ st.pc = "remove"
    /\ \/ /\ containers[st.id].state \in Live
          /\ containers' = EngineRemove(containers, st.id)
          /\ connected' = connected \ {st.id}
          /\ sql' = Stopped(w, [st EXCEPT !.pc = "done"])
       \/ /\ containers[st.id].state \notin Live
          /\ sql' = Stopped(w, [st EXCEPT !.err = TRUE, !.pc = "done"])
          /\ UNCHANGED <<containers, connected>>
       \/ /\ containers[st.id].state \in Live
          /\ sql' = Stopped(w, [st EXCEPT !.err = TRUE, !.faulted = TRUE, !.pc = "done"])
          /\ UNCHANGED <<containers, connected>>
    /\ UNCHANGED <<nextId, networks, proc, watchVars, stdio, probe, tags, libVars>>

\* Execute returns res: the deferred stopMysqlClient starts.
Returning(res) ==
    [sql EXCEPT !.result = res, !.pc = "defer",
                !.stop["main"] = [NoStop EXCEPT !.pc = "info"]]

\* Execute, line 105: io.Copy(os.Stdout, resp.Reader) ends at the end of the
\* stream, or with an error, which is returned.
ExecCopy ==
    /\ sql.pc = "copy"
    /\ \/ RemoteClosed /\ sql' = [sql EXCEPT !.pc = "recv"]
       \/ sql' = Returning("err")
    /\ UNCHANGED <<engineVars, proc, watchVars, stdio, probe, tags, libVars>>

\* Execute, lines 109-114: cd := int(<-exit); a status other than 0 is
\* returned as an error.
ExecRecvExit ==
    /\ sql.pc = "recv" /\ exit[Cid] # <<>>
    /\ exit' = [exit EXCEPT ![Cid] = Tail(@)]
    /\ sql' = [Returning(IF Head(exit[Cid]) # 0 THEN "status" ELSE "nil")
                   EXCEPT !.cd = Head(exit[Cid])]
    /\ UNCHANGED <<engineVars, proc, watch, stdio, probe, tags, libVars>>

\* Execute, line 117: return attachStdio(resp)
ExecStdioReturned ==
    /\ sql.pc = "stdio" /\ stdio.pc = "returned"
    /\ sql' = Returning(IF stdio.ret = "nil" THEN "nil" ELSE "err")
    /\ UNCHANGED <<engineVars, proc, watchVars, stdio, probe, tags, libVars>>

----------------------------------------------------------------------------
(* attachStdio *)

\* (mutant) the restore is a statement of the paths that end without an
\* input error, not a deferred call.
RestoreUnlessInputErr(isTerminal, copyRet) == isTerminal /\ copyRet # "inErr"

\* The deferred RestoreTerminal is registered iff stdin is a terminal, and
\* then runs on every return that follows.
DeferredRestore(isTerminal, copyRet) == isTerminal

\* (mutant) the select only listens to inputDone.
SelectInputOnly(outSend, inSend) == {c \in {"in"} : inSend}

\* select { case err := <-outputDone ... case err := <-inputDone ... }: the
\* channels a sender is waiting on.
SelectReady(outSend, inSend) ==
    {c \in {"out", "in"} : (c = "out" /\ outSend) \/ (c = "in" /\ inSend)}

\* (mutant) attachStdio returns as soon as the input loop has reported.
AfterInputDoneReturns(inErr) == "return"

\* case err := <-inputDone: a nil error waits for outputDone, another is
\* returned.
AfterInputDone(inErr) == IF inErr THEN "return" ELSE "drain"

\* (mutant) the restore's result is returned only if the copy loops gave
\* no error.
DeferredResultKeepsErr(cr, restoreRet) == IF cr = "nil" THEN restoreRet ELSE cr

\* attachStdio, lines 231-233: err = term.RestoreTerminal(fd, prevState) in
\* the deferred function assigns the named result, whatever it held.
DeferredResult(cr, restoreRet) == restoreRet

\* attachStdio returns cr from state f.  With the restore deferred the named
\* result is overwritten by RestoreTerminal's, which restores the terminal or
\* fails.
Returns(f, cr) ==
    LET g == [f EXCEPT !.pc = "returned", !.copyRet = cr] IN
    \/ /\ ~DeferredRestore(f.isTerminal, cr)
       /\ stdio' = [g EXCEPT !.ret = cr]
    \/ /\ DeferredRestore(f.isTerminal, cr)
       /\ \/ stdio' = [g EXCEPT !.restores = @ + 1, !.term = "cooked",
                                 !.ret = DeferredResult(cr, "nil")]
          \/ stdio' = [g EXCEPT !.restores = @ + 1,
                                 !.ret = DeferredResult(cr, "restoreErr")]

\* attachStdio, lines 222-250: raw mode if stdin is a terminal (an error is
\* returned before anything is started), then the two copy goroutines.
StdioSetRaw ==
    LET spawned == [stdio EXCEPT !.pc = "select", !.inp = "copy", !.out = "copy"] IN
    /\ Alive /\ stdio.pc = "entry"
    /\ \/ /\ ~stdio.isTerminal
          /\ stdio' = spawned
       \/ /\ stdio.isTerminal
          /\ stdio' = [spawned EXCEPT !.term = "raw"]
       \/ /\ stdio.isTerminal
          /\ stdio' = [stdio EXCEPT !.pc = "returned", !.copyRet = "rawErr", !.ret = "rawErr"]
    /\ UNCHANGED <<engineVars, proc, watchVars, sql, probe, tags, libVars>>

\* The remote process writes a chunk of output.
RemoteWrite ==
    /\ sql.pc = "stdio" /\ Cid # 0 /\ containers[Cid].state = "running"
    /\ stdio.produced < MaxOut
    /\ stdio' = [stdio EXCEPT !.produced = @ + 1]
    /\ UNCHANGED <<engineVars, proc, watchVars, sql, probe, tags, libVars>>

\* Output goroutine, line 237: io.Copy(out, resp.Reader) copies a chunk, ends
\* with nil at the end of the stream, or ends with an error.
OutCopy ==
    LET ended(e) == [stdio EXCEPT !.out = "send", !.outErr = e,
                                  !.first = IF @ = "none" THEN "out" ELSE @] IN
    /\ Alive /\ stdio.out = "copy"
    /\ \/ /\ stdio.copied < stdio.produced
          /\ stdio' = [stdio EXCEPT !.copied = @ + 1]
       \/ /\ stdio.copied = stdio.produced /\ RemoteClosed
          /\ stdio' = ended(FALSE)
       \/ stdio' = ended(TRUE)
    /\ UNCHANGED <<engineVars, proc, watchVars, sql, probe, tags, libVars>>

\* Output goroutine, line 239: resp.CloseWrite(), after its send was received.
OutClose ==
    /\ Alive /\ stdio.out = "close"
    /\ stdio' = [stdio EXCEPT !.out = "end", !.closeWrites = @ + 1]
    /\ UNCHANGED <<engineVars, proc, watchVars, sql, probe, tags, libVars>>

\* Input goroutine, line 243: io.Copy(resp.Conn, in) ends, at the end of
\* stdin (nil) or with an error.
InCopy ==
    /\ Alive /\ stdio.inp = "copy"
    /\ \E e \in BOOLEAN :
         stdio' = [stdio EXCEPT !.inp = "close", !.inErr = e,
                                !.first = IF @ = "none" THEN "in" ELSE @]
    /\ UNCHANGED <<engineVars, proc, watchVars, sql, probe, tags, libVars>>

\* Input goroutine, lines 245-247: resp.CloseWrite(), its error only logged.
InClose ==
    /\ Alive /\ stdio.inp = "close"
    /\ stdio' = [stdio EXCEPT !.inp = "send", !.closeWrites = @ + 1]
    /\ UNCHANGED <<engineVars, proc, watchVars, sql, probe, tags, libVars>>

\* The value the output loop reports.
OutRet == IF stdio.outErr THEN "outErr" ELSE "nil"

\* attachStdio, lines 253-254: case err := <-outputDone: return err
StdioSelectOut ==
    /\ Alive /\ stdio.pc = "select"
    /\ "out" \in SelectReady(stdio.out = "send", stdio.inp = "send")
    /\ Returns([stdio EXCEPT !.out = "close", !.got = "out"], OutRet)
    /\ UNCHANGED <<engineVars, proc, watchVars, sql, probe, tags, libVars>>

\* attachStdio, lines 255-261: case err := <-inputDone
StdioSelectIn ==
    LET f == [stdio EXCEPT !.inp = "end", !.got = "in"] IN
    /\ Alive /\ stdio.pc = "select"
    /\ "in" \in SelectReady(stdio.out = "send", stdio.inp = "send")
    /\ \/ /\ AfterInputDone(stdio.inErr) = "return"
          /\ Returns(f, IF stdio.inErr THEN "inErr" ELSE "nil")
       \/ /\ AfterInputDone(stdio.inErr) = "drain"
          /\ stdio' = [f EXCEPT !.pc = "drain"]
    /\ UNCHANGED <<engineVars, proc, watchVars, sql, probe, tags, libVars>>

\* attachStdio, line 258: return <-outputDone
StdioDrain ==
    /\ Alive /\ stdio.pc = "drain" /\ stdio.out = "send"
    /\ Returns([stdio EXCEPT !.out = "close", !.got = "drain"], OutRet)
    /\ UNCHANGED <<engineVars, proc, watchVars, sql, probe, tags, libVars>>

----------------------------------------------------------------------------
(* ensureConnReady and pingDB *)

\* (mutant) the poller goes on polling after a nil.
AfterPingKeepsPolling(res) == "sleep"

\* ensureConnReady's poller, lines 129-134: a nil ends the loop, anything
\* else is followed by time.Sleep(sleep).
AfterPing(res) == IF res = "nil" THEN "send" ELSE "sleep"

\* The poller calls pingDB: attempt k begins, its worker goroutine is spawned.
BeginPing(f, k) ==
    [f EXCEPT !.poll = "ping", !.attempts = k, !.work[k] = "sql"]

\* ensureConnReady, lines 123-143: the done channel, the polling goroutine
\* with its first pingDB, the context with the global timeout, the select.
ProbeStart ==
    /\ probe.main = "idle"
    /\ probe' = BeginPing([probe EXCEPT !.main = "select"], 1)
    /\ UNCHANGED <<engineVars, proc, watchVars, sql, stdio, tags, libVars>>

\* Worker, line 157: stream, err := client.SQL(ctx, ...)
WorkerSQL(k) ==
    /\ ~probe.crashed /\ probe.work[k] = "sql"
    /\ \E next \in {"recv", "send_sqlerr"} :
         probe' = [probe EXCEPT !.work[k] = next]
    /\ UNCHANGED <<engineVars, proc, watchVars, sql, stdio, tags, libVars>>

\* Worker, line 162: _, err = stream.Recv() on the stream of a successful SQL
\* call.
WorkerRecv(k) ==
    /\ ~probe.crashed /\ probe.work[k] = "recv"
    /\ \E next \in {"send_nil", "send_recverr"} :
         probe' = [probe EXCEPT !.work[k] = next]
    /\ UNCHANGED <<engineVars, proc, watchVars, sql, stdio, tags, libVars>>

\* Worker, line 162 reached after the send of line 159 (there is no return):
\* stream.Recv() on what a failed SQL call returned.  On a nil stream the call
\* panics and the process ends; on a stream that is not nil it returns, and
\* the worker goes on to a send that nobody receives.
WorkerRecvAfterErr(k) ==
    /\ ~probe.crashed /\ probe.work[k] = "recv_after_err"
    /\ \/ probe' = [probe EXCEPT !.crashed = TRUE]
       \/ probe' = [probe EXCEPT !.work[k] = "send_again"]
    /\ UNCHANGED <<engineVars, proc, watchVars, sql, stdio, tags, libVars>>

\* What the worker does after its send at pc was received.
AfterWorkerSend(pc) ==
    IF pc = "send_sqlerr" THEN "recv_after_err"
    ELSE IF pc = "send_recverr" THEN "send_again"
    ELSE "end"

\* pingDB, lines 173-174: case err := <-done: return err, the worker being at
\* one of its sends; the poller goes on to sleep or to its own send.
PingRecv ==
    LET k == probe.attempts
        res == IF probe.work[k] = "send_nil" THEN "nil" ELSE "err" IN
    /\ ~probe.crashed /\ probe.poll = "ping"
    /\ probe.work[k] \in {"send_sqlerr", "send_recverr", "send_nil"}
    /\ probe' = [probe EXCEPT !.ping[k] = res, !.poll = AfterPing(res),
                              !.work[k] = AfterWorkerSend(@)]
    /\ UNCHANGED <<engineVars, proc, watchVars, sql, stdio, tags, libVars>>

\* pingDB, lines 171-172: case <-ctx.Done(): return ctx.Err(), the attempt's
\* own timeout; the worker is left where it is.
PingTimeout ==
    LET k == probe.attempts IN
    /\ ~probe.crashed /\ probe.poll = "ping"
    /\ probe' = [probe EXCEPT !.ping[k] = "timeout", !.poll = AfterPing("timeout")]
    /\ UNCHANGED <<engineVars, proc, watchVars, sql, stdio, tags, libVars>>

\* Poller, line 134 and 129: the pause is over, the next pingDB begins.
PollSleep ==
    /\ ~probe.crashed /\ probe.poll = "sleep" /\ probe.attempts < MaxAttempts
    /\ probe' = BeginPing([probe EXCEPT !.sleeps = @ + 1], probe.attempts + 1)
    /\ UNCHANGED <<engineVars, proc, watchVars, sql, stdio, tags, libVars>>

\* ensureConnReady, lines 146-147 with the poller's done <- nil of line 137.
ProbeRecvDone ==
    /\ ~probe.crashed /\ probe.main = "select" /\ probe.poll = "send"
    /\ probe' = [probe EXCEPT !.main = "returned", !.result = "nil", !.poll = "end"]
    /\ UNCHANGED <<engineVars, proc, watchVars, sql, stdio, tags, libVars>>

\* ensureConnReady, lines 144-145: case <-ctx.Done(): the global timeout.
ProbeDeadline ==
    /\ ~probe.crashed /\ probe.main = "select"
    /\ probe' = [probe EXCEPT !.main = "returned", !.result = "timeout"]
    /\ UNCHANGED <<engineVars, proc, watchVars, sql, stdio, tags, libVars>>

----------------------------------------------------------------------------
(* GetCompatibleTag, the version resolver *)

Comps == 0..MaxComp

\* Texts of versions: "M.m.p" and "vM.m.p", the next major "vN.0.0", the
\* short "M.m", the pre-releases "vM.1.0-rc" and the short "0.1-rc".
FullTexts(pfx) ==
    {Text("", pfx, <<a, b, c>>, FALSE) : a \in Comps, b \in Comps, c \in Comps}
NextMajorText == Text("", TRUE, <<MaxComp + 1, 0, 0>>, FALSE)
ShortTexts == {Text("", FALSE, <<a, b>>, FALSE) : a \in Comps, b \in Comps}
PreTexts == {Text("", TRUE, <<a, 1, 0>>, TRUE) : a \in Comps}
ShortPreText == Text("", FALSE, <<0, 1>>, TRUE)

\* What the registry's list can hold.
TagTexts == FullTexts(TRUE) \cup ShortTexts \cup PreTexts
              \cup {NextMajorText, ShortPreText, Word("latest")}

\* What the client's version can be.
CurTexts == FullTexts(FALSE) \cup {Empty, Word("dev"), Word("latest")}

NoVersion == [err |-> TRUE, v |-> ZeroV]

\* semver.ParseTolerant: a leading "v" is dropped, a version of fewer than
\* three numbers is filled up with zeros unless its last part carries a
\* pre-release, then semver.Parse: three numbers and the pre-release.
ParseTolerant(t) ==
    IF t.word # "" \/ t.nums = <<>> THEN NoVersion
    ELSE IF Len(t.nums) < 3 /\ t.pre THEN NoVersion
    ELSE LET n == t.nums \o [i \in 1..(3 - Len(t.nums)) |-> 0] IN
         [err |-> FALSE, v |-> Version(n[1], n[2], n[3], t.pre)]

\* semver.Version.String: "M.m.p", with "-rc" for a pre-release.
String(v) == Text("", FALSE, <<v.major, v.minor, v.patch>>, v.pre)

\* "v" + s
V(t) == [t EXCEPT !.pfx = TRUE]

\* semver.Version.Compare: -1, 0 or 1; a pre-release is before its release.
Compare(a, b) ==
    IF a.major # b.major THEN (IF a.major < b.major THEN -1 ELSE 1)
    ELSE IF a.minor # b.minor THEN (IF a.minor < b.minor THEN -1 ELSE 1)
    ELSE IF a.patch # b.patch THEN (IF a.patch < b.patch THEN -1 ELSE 1)
    ELSE IF a.pre = b.pre THEN 0
    ELSE IF a.pre THEN -1 ELSE 1

LT(a, b) == Compare(a, b) = -1
GT(a, b) == Compare(a, b) = 1
GTE(a, b) == Compare(a, b) >= 0
Equals(a, b) == Compare(a, b) = 0

\* getCompatibleTag, lines 48-53.
breakingV(cliV) ==
    IF cliV.major >= 1 THEN Version(cliV.major + 1, 0, 0, FALSE)
    ELSE Version(0, cliV.minor + 1, 0, FALSE)

\* (mutant) only a version above the boundary breaks.
BreaksAboveBoundary(v, cliV) == GT(v, breakingV(cliV))

\* getCompatibleTag, line 74: if v.GTE(breakingV)
Breaks(v, cliV) == GTE(v, breakingV(cliV))

\* (mutant) the last version of the list that fits is kept.
NewerIsLater(v, newestV) == TRUE

\* getCompatibleTag, line 79: if v.GT(newestV)
Newer(v, newestV) == GT(v, newestV)

\* GetCompatibleTag, lines 16-38, for a client that is no pre-release: the
\* versions of "go run", the parse of currentVersion, getTags and its error.
GetCompatibleTag ==
    /\ tags.pc = "idle"
    /\ \E cur \in CurTexts, tagsErr \in BOOLEAN :
         LET p == ParseTolerant(cur) IN
         tags' = IF cur \in {Empty, Word("dev")}
                 THEN [tags EXCEPT !.pc = "done", !.cur = cur, !.tag = Word("latest")]
                 ELSE IF p.err
                 THEN [tags EXCEPT !.pc = "done", !.cur = cur, !.err = "parse"]
                 ELSE IF tagsErr
                 THEN [tags EXCEPT !.pc = "done", !.cur = cur, !.cliV = p.v,
                                   !.err = "getTags"]
                 ELSE [tags EXCEPT !.pc = "loop", !.cur = cur, !.cliV = p.v]
    /\ UNCHANGED <<engineVars, proc, watchVars, sql, stdio, probe, libVars>>

\* getCompatibleTag, lines 57-82: one turn of the loop, on tag t.
getCompatibleTag ==
    /\ tags.pc = "loop"
    /\ \E t \in TagTexts :
         LET p == ParseTolerant(t) IN
         /\ Cardinality(tags.seen \cup {t}) <= MaxTags
         /\ tags' =
              IF p.err \/ p.v.pre \/ LT(p.v, tags.cliV)
              THEN [tags EXCEPT !.seen = @ \cup {t}]
              ELSE IF Breaks(p.v, tags.cliV)
              THEN [tags EXCEPT !.seen = @ \cup {t}, !.hasNewBreakingTag = TRUE]
              ELSE IF Newer(p.v, tags.newestV)
              THEN [tags EXCEPT !.seen = @ \cup {t}, !.newestV = p.v]
              ELSE [tags EXCEPT !.seen = @ \cup {t}]
    /\ UNCHANGED <<engineVars, proc, watchVars, sql, stdio, probe, libVars>>

\* What the version of a pre-release client can be: "M.1.p-rc".
PreCurTexts == {Text("", FALSE, <<a, 1, c>>, TRUE) : a \in Comps, c \in Comps}

\* GetCompatibleTag, lines 16-38, for a client that is a pre-release
\* (len(cliV.Pre) > 0, line 34): the parse of currentVersion and getTags.
GetCompatibleTagPre ==
    /\ tags.pc = "idle"
    /\ \E cur \in PreCurTexts, tagsErr \in BOOLEAN :
         LET p == ParseTolerant(cur) IN
         tags' = IF p.err
                 THEN [tags EXCEPT !.pc = "done", !.cur = cur, !.err = "parse"]
                 ELSE IF tagsErr
                 THEN [tags EXCEPT !.pc = "done", !.cur = cur, !.cliV = p.v,
                                   !.err = "getTags"]
                 ELSE [tags EXCEPT !.pc = "loopPre", !.cur = cur, !.cliV = p.v]
    /\ UNCHANGED <<engineVars, proc, watchVars, sql, stdio, probe, libVars>>

\* (mutant) a pre-release client is moved up to any version not less than
\* its own.
KeptForPreMovesUp(v, cliV, newestV) == IF GTE(v, cliV) THEN v ELSE newestV

\* getCompatibleTagForPre, lines 97-100: newestV after a tag of version v.
KeptForPre(v, cliV, newestV) == IF Equals(v, cliV) THEN cliV ELSE newestV

\* getCompatibleTagForPre, lines 90-110: one turn of the loop, on tag t.
getCompatibleTagForPre ==
    /\ tags.pc = "loopPre"
    /\ \E t \in TagTexts :
         LET p == ParseTolerant(t) IN
         /\ Cardinality(tags.seen \cup {t}) <= MaxTags
         /\ tags' =
              IF p.err
              THEN [tags EXCEPT !.seen = @ \cup {t}]
              ELSE [tags EXCEPT
                      !.seen = @ \cup {t},
                      !.newestV = KeptForPre(p.v, tags.cliV, @),
                      !.hasNewBreakingTag =
                          @ \/ (~Equals(p.v, tags.cliV) /\ ~LT(p.v, tags.cliV)
                                  /\ GT(p.v, tags.cliV))]
    /\ UNCHANGED <<engineVars, proc, watchVars, sql, stdio, probe, libVars>>

\* GetCompatibleTag, lines 40-44, the list being finished.
GetCompatibleTagReturn ==
    /\ tags.pc \in {"loop", "loopPre"}
    /\ tags' = IF Equals(tags.newestV, ZeroV)
               THEN [tags EXCEPT !.pc = "done", !.err = "notfound"]
               ELSE [tags EXCEPT !.pc = "done", !.tag = V(String(tags.newestV))]
    /\ UNCHANGED <<engineVars, proc, watchVars, sql, stdio, probe, libVars>>

----------------------------------------------------------------------------
(* EnsureInstalled *)

\* The image asked for, and another one.
Image == "image"
ImageNames == {Image, "other"}

\* A repo tag of a local image, "name:tag", or "name" where tag is "".
RepoTag(name, tag) == [name |-> name, tag |-> tag]

RepoTags ==
    {RepoTag(n, t) : n \in ImageNames, t \in {"latest", "v1"}}
      \cup {RepoTag(Image, "")}

\* The versions EnsureInstalled is asked for.
AskedVersions == {"", "latest", "v1"}

\* SplitImageID, lines 292-300.
SplitImageID(id) ==
    [image |-> id.name, version |-> IF id.tag = "" THEN "latest" ELSE id.tag]

\* VersionsInstalled, lines 277-286, on the images listed.
VersionsInstalled(imgs, image) ==
    {SplitImageID(r).version : r \in {x \in imgs : SplitImageID(x).image = image}}

\* (mutant) any version installed will do, whichever is asked for.
IsInstalledAnyVersion(versions, version) == versions # {}

\* IsInstalled, lines 253-263.
IsInstalled(versions, version) ==
    IF version = "" THEN versions # {} ELSE version \in versions

\* EnsureInstalled, lines 337-340: id := image + ":" + version, with
\* "latest" for no version.
PullVersion(version) == IF version = "" THEN "latest" ELSE version

\* EnsureInstalled, line 327: called for Image in some version, the engine
\* holding some images.
EnsureInstalled ==
    /\ inst.pc = "idle"
    /\ \E local \in SUBSET RepoTags, version \in AskedVersions :
         inst' = [inst EXCEPT !.pc = "check", !.local = local, !.version = version]
    /\ UNCHANGED <<engineVars, proc, watchVars, sql, stdio, probe, tags, tty>>

\* EnsureInstalled, lines 328-335: IsInstalled, its error returned, and
\* nothing more to do if the answer is yes.
CallIsInstalled ==
    /\ inst.pc = "check"
    /\ \/ inst' = [inst EXCEPT !.pc = "done", !.ret = "listErr"]
       \/ LET ok == IsInstalled(VersionsInstalled(inst.local, Image), inst.version) IN
          inst' = IF ok THEN [inst EXCEPT !.pc = "done", !.ok = TRUE, !.ret = "nil"]
                  ELSE [inst EXCEPT !.pc = "pull"]
    /\ UNCHANGED <<engineVars, proc, watchVars, sql, stdio, probe, tags, tty>>

\* EnsureInstalled, lines 337-350, with Pull, lines 303-321: ImagePull is
\* refused, or it answers with a stream that is read to its end unlooked at;
\* the stream is that of a pull that went through or of one that broke off,
\* and rc.Close()'s result is returned.
CallPull ==
    LET id == RepoTag(Image, PullVersion(inst.version)) IN
    /\ inst.pc = "pull"
    /\ \/ inst' = [inst EXCEPT !.pc = "done", !.pulled = TRUE, !.id = id,
                               !.ret = "pullErr"]
       \/ \E through \in BOOLEAN, ret \in {"nil", "closeErr"} :
            inst' = [inst EXCEPT !.pc = "done", !.pulled = TRUE, !.id = id,
                                 !.ret = ret,
                                 !.local = IF through THEN @ \cup {id} ELSE @]
    /\ UNCHANGED <<engineVars, proc, watchVars, sql, stdio, probe, tags, tty>>

----------------------------------------------------------------------------
(* monitorTtySize and initTtySize *)

\* initTtySize, line 773: for retry := 0; retry < 5; retry++
InitRetries == 5

\* (mutant) the retries go on after one that succeeded.
AfterRetryUntilLast(ok, tries) == IF tries = InitRetries THEN "end" ELSE "run"

\* initTtySize, lines 773-778: the loop ends on the first resize without
\* error and after the last retry.
AfterRetry(ok, tries) == IF ok \/ tries = InitRetries THEN "end" ELSE "run"

\* Attach, line 722, monitorTtySize, line 742, and initTtySize, lines 770-771:
\* the first resize request; if it fails the goroutine of the retries is
\* spawned and initTtySize returns.
CallInitTtySize ==
    /\ tty.pc = "idle"
    /\ proc[SqlProc].op = "Attach" /\ proc[SqlProc].pc = "done"
    /\ proc[SqlProc].err = NoErr
    /\ \E ok \in BOOLEAN :
         tty' = [tty EXCEPT !.pc = "monitor", !.reqs = 1,
                            !.okAt = IF ok THEN 1 ELSE 0,
                            !.retry = IF ok THEN "none" ELSE "run"]
    /\ UNCHANGED <<engineVars, proc, watchVars, sql, stdio, probe, tags, inst>>

\* initTtySize, lines 774-777: a retry, after its sleep.
TtyRetry ==
    /\ tty.retry = "run"
    /\ \E ok \in BOOLEAN :
         tty' = [tty EXCEPT !.tries = @ + 1, !.reqs = @ + 1,
                            !.okAt = IF ok THEN tty.reqs + 1 ELSE @,
                            !.retry = AfterRetry(ok, tty.tries + 1)]
    /\ UNCHANGED <<engineVars, proc, watchVars, sql, stdio, probe, tags, inst>>

\* monitorTtySize, lines 743-765: the monitor's goroutine is spawned, the
\* polling one on windows, the one of SIGWINCH elsewhere.
TtyMonitorStart ==
    /\ tty.pc = "monitor"
    /\ \E m \in {"poll", "signal"} :
         tty' = [tty EXCEPT !.pc = "done", !.monitor = m]
    /\ UNCHANGED <<engineVars, proc, watchVars, sql, stdio, probe, tags, inst>>

\* monitorTtySize, lines 750-752 and 761-763: the window's size has changed,
\* the monitor issues a resize request.
TtyMonitorResize ==
    /\ tty.monitor # "none" /\ tty.resizes < MaxResizes
    /\ tty' = [tty EXCEPT !.resizes = @ + 1,
                          !.early = @ \/ tty.retry = "run"]
    /\ UNCHANGED <<engineVars, proc, watchVars, sql, stdio, probe, tags, inst>>

----------------------------------------------------------------------------
(* Specifications *)

NoWatch == [pc |-> "none", via |-> "none", code |-> 0, sent |-> 0]

\* The engine as a call may find it: no container, or one left by an earlier
\* run under name n in state st.
Engine0(st, n) ==
    /\ containers = [i \in Ids |-> IF i = 1 /\ st # "none"
                                   THEN [name |-> n, state |-> st, code |-> 0]
                                   ELSE NoContainer]
    /\ nextId = IF st = "none" THEN 1 ELSE 2
    /\ connected = {}

Clients0 ==
    /\ proc = [p \in Procs |-> IdleProc]
    /\ watch = [i \in Ids |-> NoWatch]
    /\ exit = [i \in Ids |-> <<>>]
    /\ sql = SqlIdle /\ stdio = StdioIdle /\ probe = ProbeIdle /\ tags = TagsIdle
    /\ inst = InstIdle /\ tty = TtyIdle

\* Independent invocations of the tool, the network not yet made, the engine
\* empty or holding a stopped container of an earlier run.
Init ==
    /\ \E st \in {"none", "exited"}, n \in Names : Engine0(st, n)
    /\ networks = 0
    /\ Clients0

\* The engine empty and nothing of package cmd begun.
InitEmpty ==
    /\ Engine0("none", "Gitbase.Name")
    /\ networks = 0
    /\ Clients0

\* The steps Start and Attach share.
Bringup(p) ==
    \/ FccCreate1(p) \/ FccInfo(p) \/ FccRemove(p) \/ FccCreate2(p)
    \/ CallContainerStart(p)
    \/ NetInspect(p) \/ NetCreate(p) \/ NetConnect(p)

Next ==
    \E p \in Procs :
         \/ BeginInfoOrStart(p) \/ BeginStart(p) \/ BeginAttach(p)
         \/ CallIsRunning(p) \/ CallInfo(p)
         \/ Bringup(p)
         \/ CallContainerAttach(p)

Spec == Init /\ [][Next]_vars

\* One caller of InfoOrStart and no other actor, from an engine that holds no
\* container or one of the name in any state, and the network or not.
InitSolo ==
    /\ \E st \in {"none", "created", "running", "exited"}, n \in Names : Engine0(st, n)
    /\ networks \in {0, 1}
    /\ Clients0

NextSolo ==
    \/ SoloInfoOrStart(1)
    \/ CallIsRunning(1) \/ CallInfo(1)
    \/ Bringup(1)

SpecSolo == InitSolo /\ [][NextSolo]_vars

\* One interactive session: Attach, its exit watcher, and the reader of the
\* exit channel.
NextAttach ==
    \/ BeginAttach(1) \/ Bringup(1) \/ CallContainerAttach(1)
    \/ \E i \in Ids :
         \/ ContainerExit(i)
         \/ WaitBody(i) \/ WaitErr(i) \/ ExitSend(i) \/ ExitRecv(i)

SpecAttach == Init /\ [][NextAttach]_vars

\* The watcher is a goroutine of a live process: a send that stays possible is
\* made.
SpecAttachFair ==
    Init /\ [][NextAttach]_vars /\ \A i \in Ids : WF_vars(ExitSend(i))

\* The sql command run with a query, from runMysqlCli on: Attach's container
\* and watcher, the signal handler, the teardowns, the copy of the output, the
\* receive from exit, and the interrupts the process may get.
NextSql ==
    \/ ExecRunMysqlCli(TRUE) \/ ExecAttachReturned \/ ExecInstall
    \/ Bringup(SqlProc) \/ CallContainerAttach(SqlProc)
    \/ Interrupt \/ HandlerRecv
    \/ \E w \in Stoppers : StopInfo(w) \/ StopRemove(w)
    \/ ExecCopy \/ ExecRecvExit
    \/ \E i \in Ids : ContainerExit(i) \/ WaitBody(i) \/ WaitErr(i) \/ ExitSend(i)

SpecSql == Init /\ [][NextSql]_vars

\* The sql command run without a query, once runMysqlCli has returned the
\* stream of the running mysql client container (the first container of the
\* engine, connected to the network Attach made).
InitStdio ==
    /\ containers = [i \in Ids |-> IF i = 1
                                   THEN [name |-> "MysqlCli.Name", state |-> "running", code |-> 0]
                                   ELSE NoContainer]
    /\ nextId = 2 /\ networks = 1 /\ connected = {1}
    /\ proc = [p \in Procs |->
                 IF p = SqlProc
                 THEN [IdleProc EXCEPT
                         !.pc = "done", !.op = "Attach", !.name = "MysqlCli.Name",
                         !.resID = 1, !.calls = 1,
                         !.log = <<Req("create", 1, TRUE), Req("net_inspect", 0, FALSE),
                                   Req("net_create", 0, TRUE), Req("net_connect", 1, TRUE),
                                   Req("attach", 1, TRUE), Req("start", 1, TRUE)>>]
                 ELSE IdleProc]
    /\ watch = [i \in Ids |-> IF i = 1 THEN [NoWatch EXCEPT !.pc = "wait"] ELSE NoWatch]
    /\ exit = [i \in Ids |-> <<>>]
    /\ sql = [SqlIdle EXCEPT !.pc = "install"]
    /\ stdio = StdioIdle /\ probe = ProbeIdle /\ tags = TagsIdle
    /\ inst = InstIdle /\ tty = TtyIdle

\* The interactive session: attachStdio's goroutines, the remote, the signal
\* handler and the teardowns.
NextStdio ==
    \/ ExecInstall \/ ExecStdioReturned
    \/ StdioSetRaw \/ RemoteWrite \/ OutCopy \/ OutClose \/ InCopy \/ InClose
    \/ StdioSelectOut \/ StdioSelectIn \/ StdioDrain
    \/ Interrupt \/ HandlerRecv
    \/ \E w \in Stoppers : StopInfo(w) \/ StopRemove(w)
    \/ ContainerExit(Cid)

SpecStdio == InitStdio /\ [][NextStdio]_vars

\* Execute's goroutine and the output goroutine are goroutines of a live
\* process: a step of theirs that stays possible is taken.  Nothing is assumed
\* of stdin, of the remote or of signals.
SpecStdioFair ==
    /\ InitStdio /\ [][NextStdio]_vars
    /\ WF_vars(ExecInstall) /\ WF_vars(StdioSetRaw) /\ WF_vars(OutCopy)
    /\ WF_vars(StdioSelectOut) /\ WF_vars(StdioDrain) /\ WF_vars(ExecStdioReturned)
    /\ WF_vars(StopInfo("main")) /\ WF_vars(StopRemove("main"))

\* ensureConnReady: its caller, the poller, the workers of the attempts.
NextProbe ==
    \/ ProbeStart \/ PingRecv \/ PingTimeout \/ PollSleep
    \/ ProbeRecvDone \/ ProbeDeadline
    \/ \E k \in Attempts : WorkerSQL(k) \/ WorkerRecv(k) \/ WorkerRecvAfterErr(k)

SpecProbe == InitEmpty /\ [][NextProbe]_vars

\* GetCompatibleTag on a client version and a list of tags.
NextTags == GetCompatibleTag \/ getCompatibleTag \/ GetCompatibleTagReturn

SpecTags == InitEmpty /\ [][NextTags]_vars

\* GetCompatibleTag on a pre-release client's version and a list of tags.
NextTagsPre ==
    GetCompatibleTagPre \/ getCompatibleTagForPre \/ GetCompatibleTagReturn

SpecTagsPre == InitEmpty /\ [][NextTagsPre]_vars

\* EnsureInstalled on an engine with some images.
NextInst == EnsureInstalled \/ CallIsInstalled \/ CallPull

SpecInst == InitEmpty /\ [][NextInst]_vars

\* Attach for the mysql client container has made its requests: the
\* container runs, connected to the network, its exit is waited for, and
\* Execute is still in runMysqlCli.
InitTty ==
    /\ containers = [i \in Ids |-> IF i = 1
                                   THEN [name |-> "MysqlCli.Name", state |-> "running", code |-> 0]
                                   ELSE NoContainer]
    /\ nextId = 2 /\ networks = 1 /\ connected = {1}
    /\ proc = [p \in Procs |->
                 IF p = SqlProc
                 THEN [IdleProc EXCEPT
                         !.pc = "done", !.op = "Attach", !.name = "MysqlCli.Name",
                         !.resID = 1, !.calls = 1,
                         !.log = <<Req("create", 1, TRUE), Req("net_inspect", 0, FALSE),
                                   Req("net_create", 0, TRUE), Req("net_connect", 1, TRUE),
                                   Req("attach", 1, TRUE), Req("start", 1, TRUE)>>]
                 ELSE IdleProc]
    /\ watch = [i \in Ids |-> IF i = 1 THEN [NoWatch EXCEPT !.pc = "wait"] ELSE NoWatch]
    /\ exit = [i \in Ids |-> <<>>]
    /\ sql = [SqlIdle EXCEPT !.pc = "run"]
    /\ stdio = StdioIdle /\ probe = ProbeIdle /\ tags = TagsIdle
    /\ inst = InstIdle /\ tty = TtyIdle

\* The sizing of the container's tty: the initial one and the monitor.
NextTty == CallInitTtySize \/ TtyRetry \/ TtyMonitorStart \/ TtyMonitorResize

SpecTty == InitTty /\ [][NextTty]_vars

----------------------------------------------------------------------------
(* Reading a call's request log *)

\* The positions of the requests rpc in the log of p, in order of issue.
At(p, rpc) == {k \in 1..Len(proc[p].log) : proc[p].log[k].rpc = rpc}

\* The position of the first and of the last request rpc of p (0: none).
FirstAt(p, rpc) ==
    LET S == At(p, rpc) IN
    IF S = {} THEN 0 ELSE CHOOSE k \in S : \A j \in S : k <= j
LastAt(p, rpc) ==
    LET S == At(p, rpc) IN
    IF S = {} THEN 0 ELSE CHOOSE k \in S : \A j \in S : k >= j

\* forceContainerCreate of p has looked the name up after a failed create.
LookedUp(p) ==
    LET c1 == FirstAt(p, "create") IN
    c1 # 0 /\ Len(proc[p].log) > c1 /\ ~proc[p].log[c1].ok

----------------------------------------------------------------------------
(* C1: forceContainerCreate *)

\* C1 as stated: whenever the first create fails and the lookup finds a
\* container of the name, the call ends having issued the removal and exactly
\* one retry of the create (two creates, one remove).
C1_RetriedWheneverFound ==
    \A p \in Procs :
        (proc[p].pc = "done" /\ proc[p].infoID # 0)
            => /\ Cardinality(At(p, "remove")) = 1
               /\ Cardinality(At(p, "create")) = 2

\* C1, amended: a call issues at most two creates and at most one remove; the
\* remove follows the failed first create and targets the container found; a
\* second create is issued iff that remove succeeded, directly after it; a
\* failed remove ends the call with the remove's error; a failed second
\* create ends the call with that create's error and nothing is issued after.
C1_ForceCreate ==
    \A p \in Procs :
        LET q == proc[p]
            c1 == FirstAt(p, "create")
            c2 == LastAt(p, "create")
            r == FirstAt(p, "remove") IN
        /\ \A k \in At(p, "create") : k \in {c1, c2}
        /\ \A k \in At(p, "remove") : k = r
        /\ r # 0 => /\ c1 # 0 /\ c1 < r /\ ~q.log[c1].ok
                    /\ q.infoID # 0 /\ q.log[r].id = q.infoID
        /\ c2 # c1 => r # 0 /\ q.log[r].ok /\ c2 = r + 1
        /\ (r # 0 /\ q.log[r].ok /\ q.pc # "fcc_create2") => c2 = r + 1
        /\ (r # 0 /\ ~q.log[r].ok)
              => /\ q.pc = "done" /\ Len(q.log) = r /\ c2 = c1
                 /\ q.err.rpc = "remove" /\ q.err.n = r
        /\ (c2 # c1 /\ ~q.log[c2].ok)
              => /\ q.pc = "done" /\ Len(q.log) = c2
                 /\ q.err.rpc = "create" /\ q.err.n = c2

\* A call whose removal succeeded and whose retried create failed has
\* returned the error of the second create.
C1_Witness ==
    \E p \in Procs :
        /\ proc[p].pc = "done"
        /\ Cardinality(At(p, "create")) = 2
        /\ FirstAt(p, "remove") # 0 /\ proc[p].log[FirstAt(p, "remove")].ok
        /\ ~proc[p].log[LastAt(p, "create")].ok
        /\ proc[p].err.n = LastAt(p, "create")

----------------------------------------------------------------------------
(* C2, C3, C4: InfoOrStart with no other actor *)

\* The container of p's name that the engine held when p's call began (0:
\* none).
Before(p) == Info(proc[p].preC, proc[p].name)

\* C2: when InfoOrStart is called for a name held by a container that is not
\* running (created or exited), and no request fails for a reason of transport
\* or daemon, the call returns a record without error; whenever it returns a
\* record, exactly one container holds the name, it is running, it is the one
\* returned, its id differs from the old container's, and the old container
\* has been removed and was never the target of a start request.
C2_StoppedIsRecreated ==
    LET q == proc[1] IN
    (/\ q.pc = "done" /\ q.op = "InfoOrStart"
     /\ Before(1) # 0 /\ q.preC[Before(1)].state # "running")
        => /\ ~q.faulted => q.err = NoErr
           /\ q.err = NoErr
                 => /\ Named(containers, q.name) = {q.recID}
                    /\ containers[q.recID].state = "running"
                    /\ q.recState = "running"
                    /\ q.recID # Before(1)
                    /\ containers[Before(1)].state = "removed"
                    /\ \A k \in At(1, "start") : q.log[k].id # Before(1)

\* The name was held by an exited container; the call has returned the record
\* of a new, running one.
C2_Witness ==
    /\ proc[1].pc = "done" /\ proc[1].op = "InfoOrStart" /\ proc[1].err = NoErr
    /\ Before(1) # 0 /\ proc[1].preC[Before(1)].state = "exited"
    /\ proc[1].recID # 0 /\ proc[1].recID # Before(1)
    /\ containers[proc[1].recID].state = "running"

\* C3: a call of InfoOrStart that directly follows a call for the same name
\* which returned a record, with no other actor in between, returns a record
\* of the same container id.
C3_Idempotent ==
    LET q == proc[1] IN
    (q.pc = "done" /\ q.op = "InfoOrStart" /\ q.prevID # 0 /\ q.err = NoErr)
        => q.recID = q.prevID

\* The first call had to bring the container up (it issued a create), the
\* second has returned the same id.
C3_Witness ==
    /\ proc[1].pc = "done" /\ proc[1].calls = 2 /\ proc[1].err = NoErr
    /\ proc[1].prevID # 0 /\ proc[1].recID = proc[1].prevID
    /\ proc[1].preC[proc[1].prevID].state = "running"
    /\ proc[1].prevID > 1

\* C4: when the name is held by a running container at the call, InfoOrStart
\* issues nothing but listings (no create, remove, start or network request),
\* the engine's containers and networks stay as they were, and unless a
\* listing fails the call returns the record of that container, running.
C4_RunningIsLeftAlone ==
    LET q == proc[1] IN
    (q.op = "InfoOrStart" /\ IsRunning(q.preC, q.name))
        => /\ \A k \in 1..Len(q.log) : q.log[k].rpc = "list"
           /\ containers = q.preC /\ networks = q.preNet
           /\ q.pc \notin {"fcc_create1", "fcc_info", "fcc_remove", "fcc_create2",
                           "start", "net_inspect", "net_create", "net_connect"}
           /\ (q.pc = "done" /\ ~q.faulted)
                 => /\ q.err = NoErr
                    /\ q.recID = Before(1) /\ q.recState = "running"

\* A call that found the name running has returned its record after two
\* listings.
C4_Witness ==
    /\ proc[1].pc = "done" /\ proc[1].op = "InfoOrStart" /\ proc[1].err = NoErr
    /\ IsRunning(proc[1].preC, proc[1].name)
    /\ Len(proc[1].log) = 2 /\ proc[1].recID = Before(1)

----------------------------------------------------------------------------
(* C5: forceContainerCreate, the lookup fails *)

\* C5: when the first create failed and the lookup by name gave no container
\* (not found, or the listing failed), the call has returned the error of the
\* first create, and has issued neither a remove nor a second create.
C5_LookupFails ==
    \A p \in Procs :
        LET q == proc[p]
            c1 == FirstAt(p, "create") IN
        (LookedUp(p) /\ q.infoID = 0)
            => /\ q.pc = "done"
               /\ q.err.rpc = "create" /\ q.err.n = c1
               /\ q.err = q.createErr
               /\ At(p, "remove") = {}
               /\ At(p, "create") = {c1}
               /\ Len(q.log) = c1 + 1 /\ q.log[c1 + 1].rpc = "list"

\* The create was refused for the name, and by the time of the lookup the
\* container that held it was gone: the conflict is what the caller gets.
C5_Witness ==
    \E p \in Procs :
        /\ LookedUp(p) /\ proc[p].infoID = 0 /\ proc[p].pc = "done"
        /\ proc[p].log[Len(proc[p].log)].ok
        /\ proc[p].err.kind = "conflict"

----------------------------------------------------------------------------
(* C6: one container per name *)

----------------------------------------------------------------------------
(* C7: the network under two concurrent callers *)

\* connectToNetwork of the call of p has returned.
NetReturned(p) ==
    \/ At(p, "net_connect") # {}
    \/ At(p, "net_create") # {} /\ ~proc[p].log[LastAt(p, "net_create")].ok

\* C7: when two invocations of connectToNetwork both found the network
\* missing (no request of either call failed for another reason), both return
\* without a network-creation error and exactly one network of the name
\* exists afterwards.
C7_NetworkEnsureSafe ==
    \A p \in Procs, r \in Procs :
        (/\ p # r
         /\ ~proc[p].faulted /\ ~proc[r].faulted
         /\ At(p, "net_create") # {} /\ At(r, "net_create") # {}
         /\ NetReturned(p) /\ NetReturned(r))
            => /\ networks = 1
               /\ proc[p].err.rpc # "net_create"
               /\ proc[r].err.rpc # "net_create"

----------------------------------------------------------------------------
(* C8: network connect, create and start *)

\* Request k of p's log is preceded by a successful request rpc for the same
\* container id.
After(p, k, rpc) ==
    \E j \in 1..(k - 1) :
        /\ proc[p].log[j].rpc = rpc /\ proc[p].log[j].ok
        /\ proc[p].log[j].id = proc[p].log[k].id

\* C8 as stated: in Start and in Attach, the start request of a container is
\* issued after a successful connect of that container to the network.
C8_ConnectBeforeStart ==
    \A p \in Procs : \A k \in At(p, "start") : After(p, k, "net_connect")

\* C8, amended: a connect request always follows the successful create of its
\* container.  In Attach the start request follows the successful connect.  In
\* Start the order is create, start, connect: the connect request is issued
\* only after the container's start request has succeeded.
C8_ConnectOrder ==
    \A p \in Procs :
        LET conns == At(p, "net_connect")
            starts == At(p, "start") IN
        /\ \A k \in conns : After(p, k, "create")
        /\ \A k \in starts : After(p, k, "create")
        /\ proc[p].op = "Attach"
              => /\ \A k \in starts : After(p, k, "net_connect")
                 /\ \A k \in conns : ~After(p, k, "start")
        /\ proc[p].op \in {"Start", "InfoOrStart"}
              => /\ \A k \in conns : After(p, k, "start")
                 /\ \A k \in starts : ~After(p, k, "net_connect")

\* An Attach and a Start have both brought their container up and connected
\* it: the Attach connected before its start, the Start after it.
C8_Witness ==
    \E p \in Procs, r \in Procs :
        /\ proc[p].op = "Attach" /\ proc[p].pc = "done" /\ proc[p].err = NoErr
        /\ FirstAt(p, "net_connect") # 0
        /\ FirstAt(p, "net_connect") < FirstAt(p, "start")
        /\ proc[r].op = "Start" /\ proc[r].pc = "done" /\ proc[r].err = NoErr
        /\ FirstAt(r, "start") # 0
        /\ FirstAt(r, "start") < FirstAt(r, "net_connect")

----------------------------------------------------------------------------
(* C9: Attach attaches between create and start *)

\* forceContainerCreate, connectToNetwork or ContainerAttach of p's call has
\* failed.
FailedBeforeStart(p) ==
    \/ proc[p].pc = "done" /\ proc[p].resID = 0
    \/ \E k \in 1..Len(proc[p].log) :
         /\ proc[p].log[k].rpc \in {"net_create", "net_connect", "attach"}
         /\ ~proc[p].log[k].ok

\* C9: in Attach the stream is attached after the container's create has
\* succeeded and before its start request is issued; if create, network
\* connect or attach fails, Attach has returned an error, has issued no start
\* request, and the container it created has never been started.
C9_AttachOrder ==
    \A p \in Procs :
        proc[p].op = "Attach"
            => /\ \A k \in At(p, "attach") : After(p, k, "create")
               /\ \A k \in At(p, "attach") : ~After(p, k, "start")
               /\ \A k \in At(p, "start") : After(p, k, "attach")
               /\ FailedBeforeStart(p)
                     => /\ proc[p].pc = "done" /\ proc[p].err # NoErr
                        /\ At(p, "start") = {}
                        /\ proc[p].resID # 0
                              => /\ containers[proc[p].resID].state \in {"created", "removed"}
                                 /\ watch[proc[p].resID].pc = "none"

\* An Attach whose ContainerAttach failed: it has returned that error and left
\* its container created and not started.
C9_Witness ==
    \E p \in Procs :
        /\ proc[p].op = "Attach" /\ proc[p].pc = "done"
        /\ proc[p].err.rpc = "attach"
        /\ proc[p].resID # 0 /\ containers[proc[p].resID].state = "created"
        /\ At(p, "start") = {}

----------------------------------------------------------------------------
(* C10: the exit channel of Attach *)

\* What holds of the watcher and the channel of container i at every moment.
ExitChanOk(i) ==
    LET w == watch[i] IN
    /\ w.sent <= 1
    /\ Len(exit[i]) <= w.sent /\ Len(exit[i]) <= ExitChanCap
    /\ w.pc = "end" <=> w.sent = 1
    /\ exit[i] # <<>> => exit[i] = <<w.code>>
    /\ w.via = "body" => /\ containers[i].state \in {"exited", "removed"}
                         /\ w.code = containers[i].code
    /\ w.via = "err" => w.code = SentinelCode
    /\ w.pc \in {"send", "end"} <=> w.via # "none"
    /\ w.pc = "send" => Len(exit[i]) < ExitChanCap

\* C10: every Attach that returned without error has a watcher on its
\* container; a watcher sends at most one value, the container's status when
\* the wait gave a body and 1 when it gave an error; the channel has room for
\* the value whenever the watcher is about to send it, reader or not; and once
\* the wait has answered the value is eventually in the channel.
C10_ExitExactlyOnce ==
    /\ [](\A i \in Ids : ExitChanOk(i))
    /\ [](\A p \in Procs :
            (proc[p].op = "Attach" /\ proc[p].pc = "done" /\ proc[p].err = NoErr)
                => watch[proc[p].resID].pc # "none")
    /\ \A i \in Ids : (watch[i].pc = "send") ~> (watch[i].sent = 1)

\* A session's container was killed by the removal a second Attach forced: its
\* watcher got the body and has sent the kill status, which nobody has read.
C10_Witness ==
    \E i \in Ids :
        /\ watch[i].pc = "end" /\ watch[i].via = "body"
        /\ containers[i].state = "removed"
        /\ exit[i] = <<137>>

----------------------------------------------------------------------------
(* C11: attachStdio when the input loop ends first *)

\* The output loop has finished copying and its report has been received.
OutputFinished == stdio.out \in {"close", "end"}

\* C11 as stated: whenever the input loop ended before the output loop,
\* attachStdio has not returned unless the output loop has finished.
C11_InputFirstWaitsOutput ==
    (stdio.pc = "returned" /\ stdio.first = "in") => OutputFinished

\* C11, amended: the input goroutine requests the half-close before it
\* reports; when it reports no error first, attachStdio waits for the output
\* loop, and returns only once that loop has finished, having copied every
\* chunk the remote wrote if it ended without error; when it reports an error
\* first, attachStdio returns that error without waiting for the output loop.
C11_InputNilWaitsOutput ==
    /\ stdio.inp \in {"send", "end"} => stdio.closeWrites >= 1
    /\ stdio.pc = "drain" => stdio.inp = "end" /\ ~stdio.inErr
    /\ (stdio.pc = "returned" /\ stdio.got = "in")
          => stdio.inErr /\ stdio.copyRet = "inErr"
    /\ (stdio.pc = "returned" /\ stdio.got \in {"out", "drain"})
          => /\ OutputFinished
             /\ ~stdio.outErr => stdio.copied = stdio.produced /\ RemoteClosed

\* The input loop ended first and without error; attachStdio waited, and has
\* returned after the output loop copied the chunk the remote wrote.
C11_Witness ==
    /\ stdio.pc = "returned" /\ stdio.got = "drain" /\ stdio.first = "in"
    /\ ~stdio.outErr /\ stdio.produced > 0 /\ stdio.copied = stdio.produced

----------------------------------------------------------------------------
(* C12: the remote closes its output, no input is sent *)

\* C12 as stated, its exit code: an interactive Execute whose attachStdio
\* returned on the end of the output, the remote having exited with a status
\* other than 0, reports that status.
C12_ReportsExitCode ==
    (sql.pc = "exited" /\ stdio.got = "out" /\ containers[Cid].code # 0)
        => sql.result = "status"

\* C12, amended: once the remote has closed its output during an interactive
\* session, attachStdio returns and Execute ends, input loop finished or not;
\* what Execute returns is attachStdio's result, whatever the status the
\* remote exited with.
C12_OutputEndReturns ==
    /\ [](sql.pc \in {"defer", "exited"}
            => sql.result = IF stdio.ret = "nil" THEN "nil" ELSE "err")
    /\ (sql.pc = "stdio" /\ RemoteClosed) ~> (stdio.pc = "returned")
    /\ (sql.pc = "stdio" /\ RemoteClosed) ~> (sql.pc = "exited")

\* The remote exited with status 137 before writing anything; Execute has
\* returned nil while the input loop is still copying.
C12_Witness ==
    /\ sql.pc = "exited" /\ sql.result = "nil"
    /\ stdio.got = "out" /\ stdio.inp = "copy" /\ stdio.produced = 0
    /\ containers[Cid].state = "exited" /\ containers[Cid].code = 137

----------------------------------------------------------------------------
(* C13: raw mode and its restoration *)

\* C13: the terminal is in raw mode only between attachStdio's switch and its
\* return; whenever attachStdio returns after the switch, RestoreTerminal has
\* been called exactly once, on each return path, and unless it failed the
\* terminal is back in its previous mode; if the switch fails nothing is
\* started; a stdin that is no terminal is never switched.
C13_RawModeRestored ==
    /\ stdio.restores <= 1
    /\ ~stdio.isTerminal => stdio.term = "cooked" /\ stdio.restores = 0
    /\ stdio.copyRet = "rawErr"
          => /\ stdio.pc = "returned" /\ stdio.term = "cooked" /\ stdio.restores = 0
             /\ stdio.inp = "none" /\ stdio.out = "none"
    /\ (stdio.isTerminal /\ stdio.pc = "returned" /\ stdio.copyRet # "rawErr")
          => /\ stdio.restores = 1
             /\ stdio.ret # "restoreErr" => stdio.term = "cooked"
    /\ stdio.term = "raw"
          => \/ stdio.pc \in {"select", "drain"}
             \/ stdio.pc = "returned" /\ stdio.ret = "restoreErr"

\* The input loop ended first with an error, attachStdio has returned and the
\* terminal is restored.
C13_Witness ==
    /\ stdio.isTerminal /\ stdio.pc = "returned" /\ stdio.copyRet = "inErr"
    /\ stdio.restores = 1 /\ stdio.term = "cooked"

----------------------------------------------------------------------------
(* C14: an interrupt forces the removal of the mysql client container *)

\* C14: when an interrupt was delivered after runMysqlCli's container was
\* created and the process has ended, stopMysqlClient has been invoked.
C14_InterruptForcesRemoval ==
    (sql.late /\ sql.pc \in {"killed", "exited"})
        => \E w \in Stoppers : sql.stop[w].pc # "none"

----------------------------------------------------------------------------
(* C15: stopMysqlClient more than once *)

\* C15: stopMysqlClient may be running for the deferred call and for the
\* signal handler at once; an invocation hands no error to Execute, whose
\* result stays what the return statement gave (nil after a status 0, even if
\* the teardown failed); and once an invocation none of whose requests failed
\* for a reason of transport or daemon has completed, no container holds the
\* mysql client's name.
C15_TeardownRepeatable ==
    /\ \A w \in Stoppers :
          (sql.stop[w].pc = "done" /\ ~sql.stop[w].faulted)
              => Named(containers, "MysqlCli.Name") = {}
    /\ (sql.pc = "exited" /\ sql.cd # -1)
          => sql.result = IF sql.cd = 0 THEN "nil" ELSE "status"
    /\ sql.pc = "exited" => \/ sql.stop["main"].pc = "done"
                            \/ ~sql.handler /\ sql.result = "err"

\* Both invocations have completed: the handler's removed the container, the
\* deferred one found it and failed to remove it, and Execute returned nil.
C15_Witness ==
    /\ sql.pc = "exited" /\ sql.result = "nil"
    /\ sql.stop["handler"].pc = "done" /\ ~sql.stop["handler"].err
    /\ sql.stop["main"].pc = "done" /\ sql.stop["main"].err
    /\ sql.stop["main"].id # 0 /\ ~sql.stop["main"].faulted

----------------------------------------------------------------------------
(* ensureConnReady: C16, C17, C18 *)

\* C16 (as stated): ensureConnReady always returns: as long as it has not
\* returned, the process is there to return from it.
C16_AlwaysReturns == probe.main = "select" => ~probe.crashed

\* The attempts of pingDB that have returned.
Returned(k) == probe.ping[k] # "none"

\* C17: the attempts of pingDB run one at a time, each ended by its worker's
\* result or by its own timeout, with one pause between two attempts; only the
\* last attempt begun can have returned nil, no attempt begins after it, and
\* ensureConnReady returns nil only after such an attempt.
C17_OneAtATimeUntilNil ==
    /\ \A k \in Attempts :
         /\ k < probe.attempts => probe.ping[k] \in {"err", "timeout"}
         /\ k > probe.attempts => ~Returned(k) /\ probe.work[k] = "none"
         /\ probe.ping[k] = "nil" =>
              k = probe.attempts /\ probe.poll \in {"send", "end"}
    /\ probe.attempts > 0 =>
         /\ probe.sleeps = probe.attempts - 1
         /\ (probe.poll = "ping") = ~Returned(probe.attempts)
         /\ probe.poll = "sleep" => probe.ping[probe.attempts] \in {"err", "timeout"}
    /\ probe.result = "nil" =>
         probe.ping[probe.attempts] = "nil" /\ probe.poll = "end"

\* Success on the second attempt, after a first one that timed out.
C17_Witness ==
    /\ probe.result = "nil" /\ probe.attempts = 2
    /\ probe.ping[1] = "timeout" /\ probe.ping[2] = "nil"

\* C18 (as stated): an attempt that yielded an error, whichever, is never
\* fatal, and ensureConnReady's result is nil or the global deadline's error.
C18_ProbeErrorsNeverFatal ==
    /\ probe.result \in {"none", "nil", "timeout"}
    /\ (\E k \in Attempts : probe.ping[k] \in {"err", "timeout"}) => ~probe.crashed

----------------------------------------------------------------------------
(* The version resolver, stable client: C19, C20 *)

\* The versions of the tags gone through that parse and carry no pre-release.
Stable ==
    {ParseTolerant(t).v : t \in {u \in tags.seen : LET p == ParseTolerant(u) IN
                                                   ~p.err /\ ~p.v.pre}}

\* The breaking boundary: the next major from 1.0.0 on, the next minor below.
Boundary ==
    IF tags.cliV.major >= 1 THEN Version(tags.cliV.major + 1, 0, 0, FALSE)
    ELSE Version(0, tags.cliV.minor + 1, 0, FALSE)

\* Not less than current and below the boundary.
Fitting == {v \in Stable : GTE(v, tags.cliV) /\ LT(v, Boundary)}

Highest(S) == CHOOSE v \in S : \A w \in S : GTE(v, w)

\* The resolver went through a list for a client that is no pre-release.
Resolved == tags.pc = "done" /\ tags.err \in {"none", "notfound"} /\ tags.seen # {}

\* C19: for a client without pre-release and any list of tags the version
\* selected is the highest of the tags' versions that parse, carry no
\* pre-release, are not less than current and are below the breaking boundary,
\* and the tag returned is that version with "v" before it.
C19_SelectsHighestFitting ==
    /\ tags.pc \in {"loop", "done"} /\ Fitting # {} =>
         tags.newestV = Highest(Fitting)
    /\ Resolved /\ tags.err = "none" =>
         Fitting # {} /\ tags.tag = V(String(Highest(Fitting)))

\* Two fitting tags, the higher one first, one of them written short.
C19_Witness ==
    /\ Resolved /\ tags.err = "none" /\ Cardinality(Fitting) = 2
    /\ tags.tag \notin tags.seen
    /\ \E t \in tags.seen : ParseTolerant(t).v = tags.newestV /\ Len(t.nums) = 2

\* C20: whenever a tag is returned, the breaking flag is true exactly when the
\* list holds a version that parses, carries no pre-release and is at or
\* above the breaking boundary; no such version is the one selected.
C20_BreakingFlag ==
    Resolved /\ tags.err = "none" =>
      /\ tags.hasNewBreakingTag = (\E v \in Stable : GTE(v, Boundary))
      /\ LT(tags.newestV, Boundary)

\* A client of major 1: a tag returned with the flag set by a version that is
\* the boundary itself, the next major.
C20_Witness ==
    /\ Resolved /\ tags.err = "none" /\ tags.hasNewBreakingTag
    /\ tags.cliV.major >= 1
    /\ \A v \in Stable : GTE(v, Boundary) => v = Boundary

----------------------------------------------------------------------------
(* The version resolver, pre-release client, and its error: C21, C22 *)

\* The versions of the tags gone through that parse.
Parsed == {ParseTolerant(t).v : t \in {u \in tags.seen : ~ParseTolerant(u).err}}

\* C21: for a client whose version carries a pre-release the version selected
\* is never anything but that very version, and it is selected only if the
\* list holds it; a tag above it sets the breaking flag, nothing else does,
\* and the tag returned is the client's version with "v" before it.
C21_PreSelectsOnlyItself ==
    tags.pc \in {"loopPre", "done"} /\ tags.cliV.pre =>
      /\ tags.newestV \in {ZeroV, tags.cliV}
      /\ (tags.newestV = tags.cliV) = (tags.cliV \in Parsed)
      /\ tags.hasNewBreakingTag = (\E v \in Parsed : GT(v, tags.cliV))
      /\ tags.pc = "done" /\ tags.err = "none" =>
           tags.tag = V(String(tags.cliV)) /\ tags.cliV \in Parsed

\* The client's pre-release and its release in the list: the pre-release is
\* returned, the flag is set.
C21_Witness ==
    /\ tags.pc = "done" /\ tags.cliV.pre /\ tags.err = "none"
    /\ tags.hasNewBreakingTag
    /\ [tags.cliV EXCEPT !.pre = FALSE] \in Parsed

\* C22 (as stated), stable client: the not-found error is returned exactly
\* when no tag of the list fits, and a tag is returned whenever one fits.
C22_NotFoundIffNoneFits ==
    Resolved /\ ~tags.cliV.pre =>
      /\ (tags.err = "notfound") = (Fitting = {})
      /\ Fitting # {} => tags.tag # Empty

----------------------------------------------------------------------------
(* EnsureInstalled: C23, C24 *)

\* Image is there under tag t, a repo tag without tag being "latest".
Present(t) ==
    \E r \in inst.local : r.name = Image /\ (r.tag = t \/ (r.tag = "" /\ t = "latest"))

\* The tag asked for, "latest" if none is.
Requested == IF inst.version = "" THEN "latest" ELSE inst.version

\* What the check before the pull looks for: the version asked for, or, none
\* being asked for, any version of Image.
Installed ==
    IF inst.version = "" THEN \E r \in inst.local : r.name = Image
    ELSE Present(inst.version)

\* EnsureInstalled has answered without pulling, the images listed.
NoPullNeeded == inst.pc = "done" /\ ~inst.pulled /\ inst.ret = "nil"

\* C23 (as stated): with the images listed, a pull is issued exactly when
\* image:version, image:latest for no version, is not there.
C23_PullIffTagAbsent ==
    /\ inst.pc = "pull" => ~Present(Requested)
    /\ NoPullNeeded => Present(Requested)

\* C23 (amended): with the images listed, a pull is issued exactly when
\* image:version is not there or, for no version, when no version of image is
\* there at all; what is pulled is image:version, image:latest for no version.
C23_PullIffNotInstalled ==
    /\ inst.pc = "pull" => ~Installed
    /\ NoPullNeeded => Installed
    /\ inst.pulled => inst.id = RepoTag(Image, Requested) /\ ~inst.ok

\* No version asked for and no version of image there, only another image:
\* image:latest is pulled.
C23_Witness ==
    /\ inst.pc = "done" /\ inst.version = "" /\ inst.pulled
    /\ inst.id = RepoTag(Image, "latest")
    /\ \E r \in inst.local : r.name # Image

\* C24 (as stated): after a pull EnsureInstalled returns without error only
\* if image:tag is there at return.
C24_PresentAfterPull ==
    inst.pc = "done" /\ inst.pulled /\ inst.ret = "nil" => Present(Requested)

----------------------------------------------------------------------------
(* Initial terminal sizing: C25 *)

\* The initial sizing is going on: its retries are not over.
Retrying == tty.retry = "run"

\* C25 (as stated): the monitor does not start, and issues no resize, before
\* the initial sizing and its retries are over.
C25_MonitorAfterRetries ==
    /\ tty.monitor # "none" => ~Retrying
    /\ ~tty.early

\* C25 (amended): the first resize request is made before the monitor starts;
\* if it fails it is retried at most InitRetries times, up to the first
\* success, which makes at most InitRetries + 1 initial requests; the monitor
\* issues no resize before the first request.
C25_EagerFirstBoundedRetries ==
    /\ tty.reqs = (IF tty.pc = "idle" THEN 0 ELSE 1 + tty.tries)
    /\ tty.tries <= InitRetries /\ tty.reqs <= InitRetries + 1
    /\ tty.okAt # 0 => tty.reqs = tty.okAt /\ ~Retrying
    /\ tty.okAt = 1 => tty.retry = "none"
    /\ tty.retry = "end" => tty.okAt > 1 \/ (tty.okAt = 0 /\ tty.tries = InitRetries)
    /\ tty.monitor # "none" \/ tty.resizes > 0 => tty.reqs >= 1
    /\ tty.resizes > 0 => tty.monitor # "none"

\* The first request failed, the second retry succeeded, and the monitor had
\* issued a resize while the retries were running.
C25_Witness ==
    /\ tty.okAt = 3 /\ tty.retry = "end" /\ tty.early /\ tty.resizes > 0

----------------------------------------------------------------------------
(* C26: two invocations for one name *)

\* C26 (as stated): an invocation removes only after its own first create has
\* failed, and the container an invocation has created is still there when
\* the invocation goes on to start it: the other invocation has not removed
\* it.
C26_CreatedSurvivesToStart ==
    \A p \in Procs :
        LET q == proc[p]
            r == FirstAt(p, "remove")
            c1 == FirstAt(p, "create") IN
        /\ r # 0 => c1 # 0 /\ c1 < r /\ ~q.log[c1].ok
        /\ (q.pc = "start" /\ q.resID # 0) => containers[q.resID].state \in Live

----------------------------------------------------------------------------
(* C27: what attachStdio returns *)

\* C27: with stdin a terminal (and put into raw mode) what attachStdio returns
\* is RestoreTerminal's result, whatever the copy loops reported; with stdin
\* no terminal it is what the select took from the copy loops: the output
\* loop's error, or the input loop's if that is not nil.
C27_RestoreResultReturned ==
    stdio.pc = "returned" =>
      /\ (stdio.isTerminal /\ stdio.copyRet # "rawErr") =>
           /\ stdio.restores = 1
           /\ stdio.ret = (IF stdio.term = "cooked" THEN "nil" ELSE "restoreErr")
      /\ ~stdio.isTerminal =>
           /\ stdio.restores = 0 /\ stdio.ret = stdio.copyRet
           /\ stdio.ret = (IF stdio.got = "in" THEN "inErr" ELSE OutRet)

\* Stdin is a terminal, a copy loop has reported an error, the terminal was
\* restored: attachStdio has returned nil.
C27_Witness ==
    /\ stdio.pc = "returned" /\ stdio.isTerminal
    /\ stdio.copyRet \in {"inErr", "outErr"} /\ stdio.ret = "nil"

----------------------------------------------------------------------------
(* C28: the worker of a probe attempt *)

\* The worker of attempt k waits at a send on the attempt's done channel.
AtSend(k) == probe.work[k] \in {"send_sqlerr", "send_recverr", "send_nil", "send_again"}

\* C28 (as stated): the worker of an attempt sends once and ends: after the
\* report of a failed SQL call it does not use the stream, it never comes to a
\* second send, and it is not left at a send once pingDB has returned.
C28_WorkerSendsOnce ==
    \A k \in Attempts :
        /\ probe.work[k] \notin {"recv_after_err", "send_again"}
        /\ Returned(k) => ~AtSend(k)

====
